---- MODULE Spec2Model ----
(***************************************************************************)
(* Model of the Slack deep-research orchestrators:                         *)
(*   src/orchestrator.py            DeepResearchOrchestrator   ("simple")  *)
(*   src/orchestrator_concurrent.py ConcurrentDeepResearchOrchestrator     *)
(*                                                          ("concurrent") *)
(* Worker processes share the slack_messages table, the files              *)
(* deep-research-start-url.json and retrieve_report/reports/report_*.txt   *)
(* and, for the concurrent engine, the file lock orchestrator.lock.        *)
(* A message is identified by its ts; sent_datetime is computed from ts    *)
(* (slack_message_retriever.py:214), so the order of ts is the order of    *)
(* sent_datetime and distinct rows have distinct sent_datetime.            *)
(***************************************************************************)
EXTENDS Integers, Sequences, FiniteSets, TLC

\* ---------------------------------------------------------------- bounds
NProcs == 2        \* worker process slots
NItems == 4        \* messages of the channel, ts = 1..NItems
MaxPasses == 2     \* run_workflow passes started in one behaviour
MaxCrashes == 1    \* process crashes in one behaviour

\* ------------------------------------------------------ program constants
max_retries == 3   \* step5_retrieve_and_send_report(..., max_retries=3)

Procs == 1..NProcs
Items == 1..NItems
PassIds == 1..MaxPasses
NoItem == 0
NoUrl == 0

\* ------------------------------------------------------------------ texts
\* Message texts are sequences of characters.
BotText == <<"R","e","p","o","r","t"," ","r","e","a","d","y">>
JoinText == <<"B","o","b"," ","H","A","S"," ","j","o","i","n","e","d"," ","t","h","e"," ","c","h","a","n","n","e","l">>
QueryText == <<"R","e","s","e","a","r","c","h"," ","q","u","a","n","t","u","m"," ","c","o","m","p","u","t","i","n","g">>
NearMissText == <<"w","h","o"," ","h","a","s"," ","j","o","i","n","e","d"," ","t","h","e"," ","c","h","a","t">>

\* The messages of the channel: ts 1 is a bot message, ts 3 a join
\* notification, every other ts a user request.
is_bot(ts) == ts = 1

MessageText(ts) ==
    IF ts = 1 THEN BotText
    ELSE IF ts = 3 THEN JoinText
    ELSE IF ts = 4 THEN NearMissText
    ELSE QueryText

system_message_patterns ==
    { <<"h","a","s"," ","j","o","i","n","e","d"," ","t","h","e"," ","c","h","a","n","n","e","l">>,
      <<"h","a","s"," ","l","e","f","t"," ","t","h","e"," ","c","h","a","n","n","e","l">>,
      <<"s","e","t"," ","t","h","e"," ","c","h","a","n","n","e","l"," ","t","o","p","i","c">>,
      <<"s","e","t"," ","t","h","e"," ","c","h","a","n","n","e","l"," ","d","e","s","c","r","i","p","t","i","o","n">>,
      <<"p","i","n","n","e","d"," ","a"," ","m","e","s","s","a","g","e">>,
      <<"u","n","p","i","n","n","e","d"," ","a"," ","m","e","s","s","a","g","e">>,
      <<"a","r","c","h","i","v","e","d"," ","t","h","e"," ","c","h","a","n","n","e","l">>,
      <<"u","n","a","r","c","h","i","v","e","d"," ","t","h","e"," ","c","h","a","n","n","e","l">>,
      <<"r","e","n","a","m","e","d"," ","t","h","e"," ","c","h","a","n","n","e","l">>,
      <<"s","e","t"," ","t","h","e"," ","c","h","a","n","n","e","l"," ","p","u","r","p","o","s","e">>,
      <<"c","l","e","a","r","e","d"," ","t","h","e"," ","c","h","a","n","n","e","l"," ","t","o","p","i","c">>,
      <<"c","l","e","a","r","e","d"," ","t","h","e"," ","c","h","a","n","n","e","l"," ","p","u","r","p","o","s","e">> }

\* str.lower() on the characters the texts use (ASCII letters).
LowerChar(c) ==
    CASE c = "A" -> "a" [] c = "B" -> "b" [] c = "C" -> "c" [] c = "D" -> "d"
      [] c = "E" -> "e" [] c = "F" -> "f" [] c = "G" -> "g" [] c = "H" -> "h"
      [] c = "I" -> "i" [] c = "J" -> "j" [] c = "K" -> "k" [] c = "L" -> "l"
      [] c = "M" -> "m" [] c = "N" -> "n" [] c = "O" -> "o" [] c = "P" -> "p"
      [] c = "Q" -> "q" [] c = "R" -> "r" [] c = "S" -> "s" [] c = "T" -> "t"
      [] c = "U" -> "u" [] c = "V" -> "v" [] c = "W" -> "w" [] c = "X" -> "x"
      [] c = "Y" -> "y" [] c = "Z" -> "z" [] OTHER -> c

Lower(text) == [i \in DOMAIN text |-> LowerChar(text[i])]

\* Python's  pattern in text  on sequences of characters.
Contains(pattern, text) ==
    \E i \in 1..(Len(text) - Len(pattern) + 1) :
        SubSeq(text, i, i + Len(pattern) - 1) = pattern

\* The test on the text as stored, without lower().
is_system_message_NoLower(text) ==
    \E pattern \in system_message_patterns : Contains(pattern, text)

is_system_message(text) ==
    \E pattern \in system_message_patterns : Contains(pattern, Lower(text))

\* The rows whose text is a system notification (a constant of the model).
SystemItems == { ts \in Items : is_system_message(MessageText(ts)) }

\* ------------------------------------------------------------------ state
VARIABLES
    slack_messages,   \* the table: ts -> row (stored, processed, report_generated,
                      \*   report_sent_to_slack, report_content)
    url_file,         \* playwright-mcp-state/deep-research-start-url.json: a url or NoUrl
    latest_report,    \* the report_*.txt of largest st_mtime, or NoReport
    session_files,    \* orchestrator_sessions/session_<id>.json that exist (by pass)
    lock_holders,     \* the processes holding orchestrator.lock
    engine,           \* which orchestrator each process slot runs
    pc,               \* each process's position in run_workflow
    pass_id,          \* the number of the pass each process is in
    message,          \* run_workflow's local  message  (a ts, or NoItem)
    pending_reports,  \* DeepResearchOrchestrator.pending_reports (its keys)
    timers,           \* the threading.Timer chain armed by each pass
    passes,           \* passes started so far
    crashes,          \* crashes so far
    claim_count,      \* history: times step2_get_and_lock_unprocessed_message returned ts
    last_failed,      \* history: ts whose job launch failed in the process's last pass
    orphaned,         \* history: ts in flight in a process that crashed
    launch_error,     \* history: why step 3 returned None in the process's last pass
    step2_result,     \* history: why the concurrent step 2 of the process's
                      \*   pass returned None without a row being written
    search_query,     \* step3_generate_deep_research: the text to research
    script_query,     \* the text between the quotes of  const searchQuery = "...";
                      \*   in deep-research-dynamic.js
    report_content,   \* the text given to _is_report_incomplete
    verdict,          \* what _is_report_incomplete returned
    delivery,         \* one call of send_report_to_slack
    main_state,       \* main() of orchestrator.py after run_workflow returned
    report_files,     \* reports/report_*.txt as one step5 call lists them
    listing,          \* what that call did with them
    retrieval,        \* each process's call of get_channel_messages
    retrieval_logs    \* the MessageRetrievalLog row of each call (its status)

storeVars == <<slack_messages, url_file, latest_report, session_files, lock_holders>>
procVars == <<engine, pc, pass_id, message, pending_reports>>
histVars == <<claim_count, last_failed, orphaned, launch_error>>
workerVars == <<storeVars, procVars, timers, passes, crashes, histVars, step2_result>>
textVars == <<search_query, script_query, report_content, verdict>>
listVars == <<report_files, listing>>
callVars == <<textVars, delivery, main_state, listVars, retrieval, retrieval_logs>>
vars == <<workerVars, callVars>>

NoReport == [chain |-> 0, n |-> 0, incomplete |-> FALSE]
NoTimer == [phase |-> "none"]

\* SlackMessage(...) as _store_message creates it: processed=False and the
\* column defaults report_generated=False, report_sent_to_slack=False.
NewRow ==
    [stored |-> TRUE, processed |-> FALSE, report_generated |-> FALSE,
     report_sent_to_slack |-> FALSE, report_content |-> NoUrl]

AbsentRow ==
    [stored |-> FALSE, processed |-> FALSE, report_generated |-> FALSE,
     report_sent_to_slack |-> FALSE, report_content |-> NoUrl]

Min(S) == CHOOSE x \in S : \A y \in S : x <= y
Max(S) == CHOOSE x \in S : \A y \in S : x >= y

\* The query without the is_bot filter.
Unprocessed_WithBots(db) ==
    { ts \in Items : db[ts].stored /\ ~db[ts].processed }

\* query(SlackMessage).filter(processed == False, is_bot == False)
Unprocessed(db) ==
    { ts \in Items : db[ts].stored /\ ~db[ts].processed /\ ~is_bot(ts) }

\* The query ordered by sent_datetime descending.
OldestUnprocessed_Newest(db) ==
    IF Unprocessed(db) = {} THEN NoItem ELSE Max(Unprocessed(db))

\* ... .order_by(SlackMessage.sent_datetime.asc()).first()
OldestUnprocessed(db) ==
    IF Unprocessed(db) = {} THEN NoItem ELSE Min(Unprocessed(db))

Live(c) == timers[c].phase = "armed"

\* The timer threads of process p that are still to fire.
OwnTimers(p) == { c \in PassIds : Live(c) /\ timers[c].owner = p }

NoResult == [why |-> "none", ts |-> NoItem]

\* No worker has started.
WorkersInit ==
    /\ slack_messages = [ts \in Items |-> IF is_bot(ts) THEN NewRow ELSE AbsentRow]
    /\ url_file = NoUrl
    /\ latest_report = NoReport
    /\ session_files = {}
    /\ lock_holders = {}
    /\ engine = [p \in Procs |-> "none"]
    /\ pc = [p \in Procs |-> "idle"]
    /\ pass_id = [p \in Procs |-> 0]
    /\ message = [p \in Procs |-> NoItem]
    /\ pending_reports = [p \in Procs |-> {}]
    /\ timers = [c \in PassIds |-> NoTimer]
    /\ passes = 0
    /\ crashes = 0
    /\ claim_count = [ts \in Items |-> 0]
    /\ last_failed = [p \in Procs |-> NoItem]
    /\ orphaned = {}
    /\ launch_error = [p \in Procs |-> "none"]
    /\ step2_result = [p \in Procs |-> NoResult]

\* The hardcoded query of deep-research-with-start.js, which step 3 replaces.
old_query == <<"L","e","m","m","i","n","g","s">>

NoVerdict == "none"
NoDelivery == [phase |-> "none"]

\* No query is being escaped, no report judged.
TextsIdle ==
    /\ search_query = <<>>
    /\ script_query = old_query
    /\ report_content = <<>>
    /\ verdict = NoVerdict

NoListing == [status |-> "none"]

\* No step5 call is listing the reports directory.
ListIdle ==
    /\ report_files = {}
    /\ listing = NoListing

\* found: the fetched messages the loop has still to handle; pending: the
\* rows added to the session and not committed; fetched (history): what
\* _fetch_channel_history returned.
NoRetrieval == [phase |-> "none", found |-> {}, pending |-> {}, fetched |-> {}]

\* No process is inside get_channel_messages, no retrieval log row exists.
IngestIdle ==
    /\ retrieval = [p \in Procs |-> NoRetrieval]
    /\ retrieval_logs = [p \in Procs |-> "none"]

Init ==
    /\ WorkersInit
    /\ TextsIdle
    /\ delivery = NoDelivery
    /\ main_state = "none"
    /\ ListIdle
    /\ IngestIdle

\* ------------------------------------------------------------ run_workflow
\* A process slot starts a pass of run_workflow: a new process running either
\* orchestrator, or the next scheduled pass of a DeepResearchOrchestrator in
\* run_continuous (whose timers are still alive). The pass begins with
\* step1_retrieve_slack_messages: get_channel_messages stores the messages of
\* the channel history that are not bot messages and not yet in the table.
\* The channel holds the messages up to some ts k, which grows with time. An
\* exception that escapes get_channel_messages (a failed commit of its log
\* row) makes step 1 return False and run_workflow stop.
StartPass(p, e) ==
    /\ pc[p] = "idle"
    /\ passes < MaxPasses
    /\ OwnTimers(p) # {} => (e = "simple" /\ engine[p] = "simple")
    /\ engine' = [engine EXCEPT ![p] = e]
    /\ passes' = passes + 1
    /\ pass_id' = [pass_id EXCEPT ![p] = passes + 1]
    /\ message' = [message EXCEPT ![p] = NoItem]
    /\ \E ok \in BOOLEAN :
        IF ok
        THEN /\ \E k \in 0..NItems :
                    slack_messages' = [ts \in Items |->
                        IF ts <= k /\ ~slack_messages[ts].stored /\ ~is_bot(ts)
                        THEN NewRow ELSE slack_messages[ts]]
             /\ pc' = [pc EXCEPT ![p] = "step2"]
        ELSE /\ pc' = [pc EXCEPT ![p] = "idle"]
             /\ UNCHANGED slack_messages
    /\ UNCHANGED <<url_file, latest_report, session_files, lock_holders,
                   pending_reports, timers, crashes, histVars>>
    /\ UNCHANGED callVars
    /\ step2_result' = [step2_result EXCEPT ![p] = NoResult]

\* step2_get_oldest_unprocessed_message, one level of its recursion: the query,
\* and for a system message the commit of processed=True and the recursive
\* call; otherwise the row is returned, or None when the query finds no row.
Step2Simple(p) ==
    /\ pc[p] = "step2"
    /\ engine[p] = "simple"
    /\ LET ts == OldestUnprocessed(slack_messages) IN
        IF ts = NoItem
        THEN /\ pc' = [pc EXCEPT ![p] = "idle"]
             /\ UNCHANGED <<slack_messages, message>>
        ELSE IF ts \in SystemItems
        THEN /\ slack_messages' = [slack_messages EXCEPT ![ts].processed = TRUE]
             /\ UNCHANGED <<pc, message>>
        ELSE /\ message' = [message EXCEPT ![p] = ts]
             /\ pc' = [pc EXCEPT ![p] = "step3"]
             /\ UNCHANGED slack_messages
    /\ UNCHANGED <<url_file, latest_report, session_files, lock_holders, engine,
                   pass_id, pending_reports, timers, passes, crashes, histVars>>
    /\ UNCHANGED callVars
    /\ UNCHANGED step2_result

\* ... its except branch: the query or the commit raised; the error is
\* logged and None returned (the session is not rolled back, nothing was
\* committed).
Step2SimpleError(p) ==
    /\ pc[p] = "step2"
    /\ engine[p] = "simple"
    /\ pc' = [pc EXCEPT ![p] = "idle"]
    /\ UNCHANGED <<storeVars, engine, pass_id, message, pending_reports, timers,
                   passes, crashes, histVars>>
    /\ UNCHANGED callVars
    /\ UNCHANGED step2_result

\* A lock that never excludes.
LockAvailable_NoExclusion(p) == TRUE

\* filelock.FileLock(orchestrator.lock): acquirable when no process holds it.
LockAvailable(p) == lock_holders = {}

\* step2_get_and_lock_unprocessed_message:  with lock:  is entered and the
\* query runs under the lock. No row, or a store error (ok = FALSE, rolled
\* back): the lock is released and None returned.
ConcQuery(p) ==
    /\ pc[p] = "step2"
    /\ engine[p] = "concurrent"
    /\ LockAvailable(p)
    /\ \E ok \in BOOLEAN :
        LET ts == OldestUnprocessed(slack_messages) IN
        IF ~ok \/ ts = NoItem
        THEN /\ pc' = [pc EXCEPT ![p] = "idle"]
             /\ UNCHANGED <<message, lock_holders>>
        ELSE /\ message' = [message EXCEPT ![p] = ts]
             /\ pc' = [pc EXCEPT ![p] = "commit"]
             /\ lock_holders' = lock_holders \cup {p}
    /\ UNCHANGED <<slack_messages, url_file, latest_report, session_files, engine,
                   pass_id, pending_reports, timers, passes, crashes, histVars>>
    /\ UNCHANGED callVars
    /\ UNCHANGED step2_result

\* A timeout after which the body of the with block runs all the same.
ConcLockTimeout_Proceeds(p) ==
    /\ pc[p] = "step2"
    /\ engine[p] = "concurrent"
    /\ lock_holders \ {p} # {}
    /\ OldestUnprocessed(slack_messages) # NoItem
    /\ message' = [message EXCEPT ![p] = OldestUnprocessed(slack_messages)]
    /\ pc' = [pc EXCEPT ![p] = "commit"]
    /\ UNCHANGED <<storeVars, engine, pass_id, pending_reports, timers,
                   passes, crashes, histVars, step2_result>>
    /\ UNCHANGED callVars

\* ... the lock stays held by another process for the 10 s timeout:
\* filelock.Timeout is caught and None returned.
ConcLockTimeout(p) ==
    /\ pc[p] = "step2"
    /\ engine[p] = "concurrent"
    /\ lock_holders \ {p} # {}
    /\ pc' = [pc EXCEPT ![p] = "idle"]
    /\ UNCHANGED <<storeVars, engine, pass_id, message, pending_reports, timers,
                   passes, crashes, histVars>>
    /\ UNCHANGED callVars
    /\ step2_result' = [step2_result EXCEPT ![p] = [why |-> "lock_timeout", ts |-> NoItem]]

\* A failed commit that leaves the change in the store.
AfterClaimCommit_NoRollback(rows, ts, ok) == [rows EXCEPT ![ts].processed = TRUE]

\* message.processed = True; commit(): the rows afterwards. A commit that
\* raises is rolled back by the except clause.
AfterClaimCommit(rows, ts, ok) ==
    IF ok THEN [rows EXCEPT ![ts].processed = TRUE] ELSE rows

\* A with block that returns without releasing the lock.
LeaveWith_LockKept(holders, p) == holders

\* with lock: ... on leaving the block, by return or by exception, the
\* FileLock is released.
LeaveWith(holders, p) == holders \ {p}

\* ... processed=True is committed, the lock released on leaving the with
\* block. A system message, or a failed commit (rolled back), returns None;
\* otherwise the detached copy of the message is returned.
ConcCommit(p) ==
    /\ pc[p] = "commit"
    /\ \E ok \in BOOLEAN :
        LET ts == message[p] IN
        /\ slack_messages' = AfterClaimCommit(slack_messages, ts, ok)
        /\ step2_result' =
                IF ok THEN step2_result
                ELSE [step2_result EXCEPT ![p] = [why |-> "rollback", ts |-> ts]]
        /\ IF ok /\ ~is_system_message(MessageText(ts))
           THEN /\ pc' = [pc EXCEPT ![p] = "step3"]
                /\ claim_count' = [claim_count EXCEPT ![ts] = IF @ < 2 THEN @ + 1 ELSE @]
                /\ UNCHANGED message
           ELSE /\ pc' = [pc EXCEPT ![p] = "idle"]
                /\ message' = [message EXCEPT ![p] = NoItem]
                /\ UNCHANGED claim_count
    /\ lock_holders' = LeaveWith(lock_holders, p)
    /\ UNCHANGED <<url_file, latest_report, session_files, engine, pass_id,
                   pending_reports, timers, passes, crashes, last_failed, orphaned,
                   launch_error>>
    /\ UNCHANGED callVars

\* run_workflow returns False after step3_generate_deep_research returned None.
LaunchFailed(p) ==
    /\ pc' = [pc EXCEPT ![p] = "idle"]
    /\ message' = [message EXCEPT ![p] = NoItem]
    /\ last_failed' = [last_failed EXCEPT ![p] = message[p]]

\* step3_generate_deep_research up to the end of subprocess.run: the script is
\* written; DeepResearchOrchestrator deletes the old url file, the concurrent
\* orchestrator leaves it; the job process ends with exit code 0 having
\* written the url file (the url of this run), with exit code 0 without a url
\* file, or with a non-zero exit code, a timeout or another exception (None
\* is returned).
Step3Job(p) ==
    /\ pc[p] = "step3"
    /\ \E outcome \in {"ok_file", "ok_nofile", "fail"} :
        LET kept == IF engine[p] = "simple" THEN NoUrl ELSE url_file IN
        /\ url_file' = IF outcome = "ok_file" THEN pass_id[p] ELSE kept
        /\ IF outcome = "fail"
           THEN /\ LaunchFailed(p)
                /\ launch_error' = [launch_error EXCEPT ![p] = "job_failed"]
           ELSE /\ pc' = [pc EXCEPT ![p] = "step3_read"]
                /\ UNCHANGED <<message, last_failed, launch_error>>
    /\ orphaned' = orphaned \ {message[p]}
    /\ UNCHANGED <<slack_messages, latest_report, session_files, lock_holders,
                   engine, pass_id, pending_reports, timers, passes, crashes,
                   claim_count>>
    /\ UNCHANGED callVars
    /\ UNCHANGED step2_result

NoContent == [chain |-> 0, n |-> 0]

\* threading.Timer(..., step5_retrieve_and_send_report, args=[url, message]),
\* started; retry_count defaults to 0.
\*   runs: calls of step5 so far;  sends: calls of send_report_to_slack so far;
\*   all_incomplete: every call so far read a report judged incomplete;
\*   sent: the content passed to send_report_to_slack.
ArmedTimer(p, url, ts) ==
    [phase |-> "armed", owner |-> p, eng |-> engine[p], url |-> url, ts |-> ts,
     retry_count |-> 0, runs |-> 0, sends |-> 0,
     all_incomplete |-> TRUE, sent |-> NoContent]

\* The branch success=False: the row is kept unprocessed for a retry.
MarkedRow_KeptForRetry(row, url) == [row EXCEPT !.processed = FALSE]

\* mark_message_processed(message, report_url, success=True): one commit sets
\* processed, report_generated and report_content; a failed write is rolled
\* back and logged.
MarkedRow(row, url) ==
    [row EXCEPT !.processed = TRUE, !.report_generated = TRUE, !.report_content = url]

\* step4_schedule_report_retrieval of DeepResearchOrchestrator.
Step4Simple(p, url) ==
    /\ pending_reports' = [pending_reports EXCEPT ![p] = @ \cup {url}]
    /\ timers' = [timers EXCEPT ![pass_id[p]] = ArmedTimer(p, url, message[p])]
    /\ UNCHANGED session_files

\* The timer started without save_session.
Step4Concurrent_NoRecord(p, url) ==
    /\ timers' = [timers EXCEPT ![pass_id[p]] = ArmedTimer(p, url, message[p])]
    /\ UNCHANGED <<session_files, pending_reports>>

\* step4_schedule_report_retrieval of the concurrent orchestrator: the session
\* record is saved and the timer started.
Step4Concurrent(p, url) ==
    /\ session_files' = session_files \cup {pass_id[p]}
    /\ timers' = [timers EXCEPT ![pass_id[p]] = ArmedTimer(p, url, message[p])]
    /\ UNCHANGED pending_reports

\* A read that makes up a url when the file is missing.
report_url_Default(file) == IF file = NoUrl THEN 1 ELSE file

\* if url_file.exists(): ... report_url = url_data.get('reportUrl', ...);
\* else: return None.
report_url(file) == file

\* The rest of the pass after the job exited with code 0: the url file is
\* read if it exists (else step 3 returns None and the pass fails);
\* DeepResearchOrchestrator then calls mark_message_processed (its commit may
\* fail) and both orchestrators schedule the retrieval (step 4).
Step3Read(p) ==
    /\ pc[p] = "step3_read"
    /\ IF report_url(url_file) = NoUrl
       THEN /\ LaunchFailed(p)
            /\ launch_error' = [launch_error EXCEPT ![p] = "no_url_file"]
            /\ UNCHANGED <<slack_messages, session_files, pending_reports, timers>>
       ELSE /\ pc' = [pc EXCEPT ![p] = "idle"]
            /\ message' = [message EXCEPT ![p] = NoItem]
            /\ last_failed' = [last_failed EXCEPT ![p] = NoItem]
            /\ launch_error' = [launch_error EXCEPT ![p] = "none"]
            /\ IF engine[p] = "simple"
               THEN /\ \E ok \in BOOLEAN :
                        slack_messages' =
                            IF ok THEN [slack_messages EXCEPT
                                            ![message[p]] = MarkedRow(@, report_url(url_file))]
                            ELSE slack_messages
                    /\ Step4Simple(p, report_url(url_file))
               ELSE /\ UNCHANGED slack_messages
                    /\ Step4Concurrent(p, report_url(url_file))
    /\ UNCHANGED <<url_file, latest_report, lock_holders, engine, pass_id, passes,
                   crashes, claim_count, orphaned>>
    /\ UNCHANGED callVars
    /\ UNCHANGED step2_result

\* --------------------------------------------- step5_retrieve_and_send_report
\* The content of a report file, identified by the run that wrote it.
ContentOf(report) == [chain |-> report.chain, n |-> report.n]

\* The comparison with <= in place of <.
RetriesRemain_Inclusive(retry_count) == retry_count <= max_retries

\* retry_count < max_retries  in each of the four retry branches.
RetriesRemain(retry_count) == retry_count < max_retries

\* A retry whatever was read.
Reschedules_IgnoringContent(readable, incomplete, retry_count) ==
    RetriesRemain(retry_count)

\* Whether step5 starts a retry timer and returns: the fetch failed or found no
\* report file, or the report read is incomplete, and retries remain.
Reschedules(readable, incomplete, retry_count) ==
    (~readable \/ incomplete) /\ RetriesRemain(retry_count)

\* The retry with the same count.
NextRetry_Same(retry_count) == retry_count

\* args=[url, message, retry_count + 1, max_retries]  of the retry timer.
NextRetry(retry_count) == retry_count + 1

\* The finally clause of step5: whether the url is removed from pending_reports.
RemovesPending(retry_count, url, pending) ==
    retry_count >= max_retries \/ (url \in pending /\ retry_count = 0)

\* A finished chain keeps what it did; its thread is gone.
Finished(t, sends, sent) ==
    [phase |-> "done", eng |-> t.eng, ts |-> t.ts, runs |-> t.runs,
     all_incomplete |-> t.all_incomplete, sends |-> sends, sent |-> sent]

\* node retrieve_report.js url  ran: the newest report file afterwards.
\*   "wrote":   it wrote a new report file (judged incomplete or not by
\*              _is_report_incomplete when read)
\*   "nothing": it exited 0 without writing one
\*   "fail":    non-zero exit code, timeout or another exception
AfterRetrieval(outcome, inc, c, n) ==
    IF outcome = "wrote"
    THEN [chain |-> c, n |-> n, incomplete |-> inc]
    ELSE latest_report

\* DeepResearchOrchestrator.step5_retrieve_and_send_report, one call.
\*   readable:   returncode == 0 and a report file exists (the newest is read)
\*   reschedule: a retry timer with retry_count + 1 is started and step5 returns
\*   send:       send_report_to_slack(report_content, message) is called; the
\*               row gets report_sent_to_slack=True when Slack answers ok and
\*               the commit succeeds
Step5Simple(c) ==
    /\ timers[c].phase = "armed"
    /\ timers[c].eng = "simple"
    /\ \E outcome \in {"wrote", "nothing", "fail"}, inc \in BOOLEAN,
          slack_ok \in BOOLEAN, commit_ok \in BOOLEAN :
        LET t == [timers[c] EXCEPT !.runs = @ + 1]
            newest == AfterRetrieval(outcome, inc, c, t.runs)
            readable == outcome # "fail" /\ newest # NoReport
            incomplete == readable /\ newest.incomplete
            reschedule == Reschedules(readable, incomplete, t.retry_count)
            send == readable /\ ~reschedule
            seen == [t EXCEPT !.all_incomplete = @ /\ incomplete]
        IN
        /\ outcome # "wrote" => ~inc
        /\ ~send => (slack_ok /\ commit_ok)
        /\ ~slack_ok => commit_ok
        /\ latest_report' = newest
        /\ slack_messages' =
                IF send /\ slack_ok /\ commit_ok
                THEN [slack_messages EXCEPT ![t.ts].report_sent_to_slack = TRUE]
                ELSE slack_messages
        /\ orphaned' = IF send /\ slack_ok THEN orphaned \ {t.ts} ELSE orphaned
        /\ timers' = [timers EXCEPT ![c] =
                        IF reschedule
                        THEN [seen EXCEPT !.retry_count = NextRetry(@)]
                        ELSE IF send
                        THEN Finished(seen, t.sends + 1, ContentOf(newest))
                        ELSE Finished(seen, t.sends, t.sent)]
        /\ pending_reports' =
                IF RemovesPending(t.retry_count, t.url, pending_reports[t.owner])
                THEN [pending_reports EXCEPT ![t.owner] = @ \ {t.url}]
                ELSE pending_reports
    /\ UNCHANGED <<url_file, session_files, lock_holders, engine, pc, pass_id,
                   message, passes, crashes, claim_count, last_failed, launch_error>>
    /\ UNCHANGED callVars
    /\ UNCHANGED step2_result

\* mark_report_sent(message_ts, report_url): one commit.
SentRow(row, url) ==
    [row EXCEPT !.report_generated = TRUE, !.report_sent_to_slack = TRUE,
                !.report_content = url]

\* ConcurrentDeepResearchOrchestrator.step5_retrieve_and_send_report: the
\* newest report file is read when its st_mtime is within the last 120 s (the
\* file this run wrote is; an older one may or may not be), sent
\* (send_report_to_slack returns nothing, whatever Slack answered) and
\* mark_report_sent is called; the session file is removed in the finally.
Step5Concurrent(c) ==
    /\ timers[c].phase = "armed"
    /\ timers[c].eng = "concurrent"
    /\ \E outcome \in {"wrote", "nothing", "fail"}, inc \in BOOLEAN,
          recent \in BOOLEAN, slack_ok \in BOOLEAN, commit_ok \in BOOLEAN :
        LET t == [timers[c] EXCEPT !.runs = @ + 1]
            newest == AfterRetrieval(outcome, inc, c, t.runs)
            readable == outcome # "fail" /\ newest # NoReport /\ recent
            seen == [t EXCEPT !.all_incomplete = @ /\ readable /\ newest.incomplete]
        IN
        /\ outcome # "wrote" => ~inc
        /\ (outcome # "nothing" \/ newest = NoReport) => recent
        /\ ~readable => (slack_ok /\ commit_ok)
        /\ latest_report' = newest
        /\ slack_messages' =
                IF readable /\ commit_ok
                THEN [slack_messages EXCEPT ![t.ts] = SentRow(@, t.url)]
                ELSE slack_messages
        /\ orphaned' = IF readable /\ slack_ok THEN orphaned \ {t.ts} ELSE orphaned
        /\ timers' = [timers EXCEPT ![c] =
                        IF readable
                        THEN Finished(seen, t.sends + 1, ContentOf(newest))
                        ELSE Finished(seen, t.sends, t.sent)]
    /\ session_files' = session_files \ {c}
    /\ UNCHANGED <<url_file, lock_holders, procVars, passes, crashes, claim_count,
                   last_failed, launch_error>>
    /\ UNCHANGED callVars
    /\ UNCHANGED step2_result

\* ------------------------------------------------------------------ crash
\* The items a process has selected or claimed and not yet delivered.
InFlight(p) ==
    (IF pc[p] \in {"step3", "step3_read"} THEN {message[p]} ELSE {})
    \cup { timers[c].ts : c \in OwnTimers(p) }

\* The process is killed: its run_workflow stops, its daemon timer threads die
\* with it, the operating system releases its file lock; files and committed
\* rows stay.
Crash(p) ==
    /\ crashes < MaxCrashes
    /\ pc[p] # "idle" \/ OwnTimers(p) # {}
    /\ crashes' = crashes + 1
    /\ pc' = [pc EXCEPT ![p] = "idle"]
    /\ engine' = [engine EXCEPT ![p] = "none"]
    /\ message' = [message EXCEPT ![p] = NoItem]
    /\ pending_reports' = [pending_reports EXCEPT ![p] = {}]
    /\ lock_holders' = lock_holders \ {p}
    /\ timers' = [c \in PassIds |->
                    IF c \in OwnTimers(p) THEN [phase |-> "killed"] ELSE timers[c]]
    /\ orphaned' = orphaned \cup InFlight(p)
    /\ last_failed' = [last_failed EXCEPT ![p] = NoItem]
    /\ launch_error' = [launch_error EXCEPT ![p] = "none"]
    /\ UNCHANGED <<slack_messages, url_file, latest_report, session_files, pass_id,
                   passes, claim_count>>
    /\ UNCHANGED callVars
    /\ step2_result' = [step2_result EXCEPT ![p] = NoResult]

\* ------------------------------------------------------------------- spec
Next ==
    \/ \E p \in Procs, e \in {"simple", "concurrent"} : StartPass(p, e)
    \/ \E p \in Procs : Step2Simple(p)
    \/ \E p \in Procs : Step2SimpleError(p)
    \/ \E p \in Procs : ConcQuery(p)
    \/ \E p \in Procs : ConcLockTimeout(p)
    \/ \E p \in Procs : ConcCommit(p)
    \/ \E p \in Procs : Step3Job(p)
    \/ \E p \in Procs : Step3Read(p)
    \/ \E c \in PassIds : Step5Simple(c)
    \/ \E c \in PassIds : Step5Concurrent(c)
    \/ \E p \in Procs : Crash(p)

Spec == Init /\ [][Next]_vars

\* ------------------------------------- step3_generate_deep_research: escaping
MaxQueryLen == 3

BS == "\\"
DQ == "\""
NL == "\n"
CR == "\r"
TAB == "\t"

QueryAlphabet == {BS, DQ, NL, CR, TAB, "n", "a"}

QueryTexts == UNION { [1..n -> QueryAlphabet] : n \in 0..MaxQueryLen }

\* Python's  text.replace(old, new)  for a one-character  old.
RECURSIVE Replace(_, _, _)
Replace(text, old, new) ==
    IF text = <<>> THEN <<>>
    ELSE (IF Head(text) = old THEN new ELSE <<Head(text)>>)
         \o Replace(Tail(text), old, new)

\* The same five replacements with the backslashes escaped last.
escaped_query_BackslashLast(text) ==
    LET e1 == Replace(text, DQ, <<BS, DQ>>)
        e2 == Replace(e1, NL, <<BS, "n">>)
        e3 == Replace(e2, CR, <<BS, "r">>)
        e4 == Replace(e3, TAB, <<BS, "t">>)
    IN  Replace(e4, BS, <<BS, BS>>)

escaped_query(text) ==
    LET e1 == Replace(text, BS, <<BS, BS>>)
        e2 == Replace(e1, DQ, <<BS, DQ>>)
        e3 == Replace(e2, NL, <<BS, "n">>)
        e4 == Replace(e3, CR, <<BS, "r">>)
    IN  Replace(e4, TAB, <<BS, "t">>)

\* Step 3 up to the write of deep-research-dynamic.js: the hardcoded query is
\* replaced by the escaped text.
WriteScript ==
    /\ script_query = old_query
    /\ script_query' = escaped_query(search_query)
    /\ UNCHANGED <<workerVars, search_query, report_content, verdict,
                   delivery, main_state, listVars, retrieval, retrieval_logs>>

EscapeInit ==
    /\ WorkersInit
    /\ search_query \in QueryTexts
    /\ script_query = old_query
    /\ report_content = <<>>
    /\ verdict = NoVerdict
    /\ delivery = NoDelivery
    /\ main_state = "none"
    /\ ListIdle
    /\ IngestIdle

EscapeNext == WriteScript

EscapeSpec == EscapeInit /\ [][EscapeNext]_vars

\* ------------------------------------------------------ _is_report_incomplete
LinkSlack == 1

min_report_length == 1000
min_link_dump_lines == 10

incomplete_indicators ==
    { <<"G","e","n","e","r","a","t","i","n","g"," ","r","e","p","o","r","t">>,
      <<"P","l","e","a","s","e"," ","w","a","i","t">>,
      <<"P","r","o","c","e","s","s","i","n","g">>,
      <<"L","o","a","d","i","n","g">>,
      <<"A","n","a","l","y","z","i","n","g"," ","s","o","u","r","c","e","s">>,
      <<"R","e","s","e","a","r","c","h"," ","i","n"," ","p","r","o","g","r","e","s","s">>,
      <<"S","t","a","r","t","i","n","g"," ","r","e","s","e","a","r","c","h">> }

\* Natural numbers as bit sequences, least significant bit first and no
\* leading zero, for the arithmetic of a double (53-bit significand).
RECURSIVE NatBits(_)
NatBits(n) == IF n = 0 THEN <<>> ELSE <<n % 2>> \o NatBits(n \div 2)

RECURSIVE Repeat(_, _)
Repeat(s, k) == IF k = 0 THEN <<>> ELSE s \o Repeat(s, k - 1)

Reverse(s) == [i \in 1..Len(s) |-> s[Len(s) + 1 - i]]

\* The literal 0.7 as a double is 0x1.6666666666666p-1, that is
\* Significand07 * 2^-53 with the 53-bit significand 1 0110 0110 ... 0110.
Significand07 == Reverse(<<1>> \o Repeat(<<0, 1, 1, 0>>, 13))
SignificandBits == 53

\* bits * n + carry  for a small n.
RECURSIVE MulSmall(_, _, _)
MulSmall(bits, n, carry) ==
    IF bits = <<>> THEN NatBits(carry)
    ELSE LET v == Head(bits) * n + carry
         IN  <<v % 2>> \o MulSmall(Tail(bits), n, v \div 2)

\* bits + 1
RECURSIVE Increment(_)
Increment(bits) ==
    IF bits = <<>> THEN <<1>>
    ELSE IF Head(bits) = 0 THEN <<1>> \o Tail(bits)
    ELSE <<0>> \o Increment(Tail(bits))

\* bits * 2^k
ShiftLeft(bits, k) == IF bits = <<>> THEN <<>> ELSE [i \in 1..k |-> 0] \o bits

GreaterBits(a, b) ==
    \/ Len(a) > Len(b)
    \/ /\ Len(a) = Len(b)
       /\ \E i \in 1..Len(a) :
            /\ a[i] > b[i]
            /\ \A j \in (i + 1)..Len(a) : a[j] = b[j]

\* The double  n * 0.7 : the exact product n * Significand07 rounded to 53
\* significant bits, ties to even, as a number  bits * 2^-53.
TimesPoint7(n) ==
    LET product == MulSmall(Significand07, n, 0)
        k == Len(product) - SignificandBits
        kept == SubSeq(product, k + 1, Len(product))
        guard == product[k]
        sticky == \E i \in 1..(k - 1) : product[i] = 1
        rounded == IF guard = 1 /\ (sticky \/ kept[1] = 1)
                   THEN Increment(kept) ELSE kept
    IN  IF k <= 0 THEN product ELSE ShiftLeft(rounded, k)

\* Python's  source_lines > len(lines) * 0.7 : the integer is compared with
\* the double exactly.
ExceedsPoint7(source_lines, n_lines) ==
    GreaterBits(ShiftLeft(NatBits(source_lines), SignificandBits),
                TimesPoint7(n_lines))

http == <<"h","t","t","p">>
www_dot == <<"w","w","w",".">>

\* The positions where a line of  text.split('\n')  starts; an empty text
\* and a text that ends with a newline have a last, empty line.
LineStarts(text) ==
    {1} \cup { i + 1 : i \in { j \in 1..Len(text) : text[j] = NL } }

\* The position after the line that starts at k.
LineEnd(text, k) ==
    LET ends == { j \in k..Len(text) : text[j] = NL } \cup {Len(text) + 1}
    IN  CHOOSE e \in ends : \A f \in ends : e <= f

\* sum(1 for line in lines if 'http' in line or 'www.' in line)
source_lines(text) ==
    LET marks == { i \in 1..(Len(text) - 3) :
                     SubSeq(text, i, i + 3) \in {http, www_dot} }
    IN  Cardinality({ k \in LineStarts(text) :
                        LET e == LineEnd(text, k)
                        IN  \E i \in marks : k <= i /\ i + 3 < e })

_is_report_incomplete(text) ==
    \/ Len(text) < min_report_length
    \/ \E indicator \in incomplete_indicators :
           Contains(Lower(indicator), Lower(text))
    \/ /\ Cardinality(LineStarts(text)) > min_link_dump_lines
       /\ ExceedsPoint7(source_lines(text), Cardinality(LineStarts(text)))

\* The reports judged: n lines of which the first  links  hold 'http' or
\* 'www.', the whole text  size  characters long, the last line holding
\* phrase  (possibly empty).
LineCounts == {1, 10, 11, 20, 90}
ReportSizes == {999, 1000}
Phrases == { <<>>,
             <<"L","o","a","d","i","n","g">>,
             <<"p","L","E","A","S","E"," ","w","A","I","T">> }

ReportInputs ==
    { in \in [lines : LineCounts, links : 0..90, size : ReportSizes, phrase : Phrases] :
        /\ in.links <= in.lines
        /\ in.links >= (7 * in.lines) \div 10 - LinkSlack
        /\ in.links <= (7 * in.lines) \div 10 + LinkSlack }

ReportLine(width, start) == start \o [i \in 1..(width - Len(start)) |-> "x"]

RECURSIVE JoinLines(_, _)
JoinLines(line, i) ==
    IF i = Len(line) THEN line[i] ELSE line[i] \o <<NL>> \o JoinLines(line, i + 1)

BuildReport(in) ==
    LET n == in.lines
        width == (in.size - (n - 1)) \div n
        last_width == in.size - (n - 1) - (n - 1) * width
        mark(i) == IF i > in.links THEN <<>>
                   ELSE IF i % 2 = 1 THEN http ELSE www_dot
        line == [i \in 1..n |->
                    IF i = n THEN ReportLine(last_width, mark(i) \o in.phrase)
                    ELSE ReportLine(width, mark(i))]
    IN  JoinLines(line, 1)

\* The call in step 5 (orchestrator.py line 338).
JudgeReport ==
    /\ verdict = NoVerdict
    /\ verdict' = IF _is_report_incomplete(report_content)
                  THEN "incomplete" ELSE "complete"
    /\ UNCHANGED <<workerVars, search_query, script_query, report_content,
                   delivery, main_state, listVars, retrieval, retrieval_logs>>

ReportInit ==
    /\ WorkersInit
    /\ search_query = <<>>
    /\ script_query = old_query
    /\ report_content \in { BuildReport(in) : in \in ReportInputs }
    /\ verdict = NoVerdict
    /\ delivery = NoDelivery
    /\ main_state = "none"
    /\ ListIdle
    /\ IngestIdle

ReportNext == JudgeReport

ReportSpec == ReportInit /\ [][ReportNext]_vars

\* -------------------------------------------------------- send_report_to_slack
MaxChunks == 3
ChunkSlack == 1

max_chunk_size == 35000
truncate_at == 39000

\* len(report_content): around the multiples of max_chunk_size, empty included.
NoThread == 0

\* The items a report is delivered for: a top-level message, and a reply in
\* the thread of message 2.
Originals == { [ts |-> 2, thread_ts |-> NoThread], [ts |-> 4, thread_ts |-> 2] }

ReportLengths ==
    { k * max_chunk_size + d : k \in 0..MaxChunks, d \in (0 - ChunkSlack)..ChunkSlack }
        \cap Nat

\* The count without the chunk for the remainder.
num_parts_NoRemainder(report_size) == report_size \div max_chunk_size

num_parts(report_size) ==
    (report_size \div max_chunk_size)
        + (IF report_size % max_chunk_size # 0 THEN 1 ELSE 0)

\* A chunk that starts one character early.
chunk_start_Overlap(i) == IF i = 0 THEN 0 ELSE i * max_chunk_size - 1

\* start  and  end  of chunk i of  range(num_parts).
chunk_start(i) == i * max_chunk_size

chunk_end(i, report_size) == Min({(i + 1) * max_chunk_size, report_size})

\* A message is what is put before the report characters and the slice
\* report_content[start:end]  that follows:  "header"  is header_message,
\* "part"  is  [Part part/of]  and two newlines.
Message(prefix, part, of, start, end) ==
    [prefix |-> prefix, part |-> part, of |-> of, start |-> start, end |-> end,
     truncated |-> FALSE]

\* The texts DeepResearchOrchestrator.send_report_to_slack sends, in order.
chunks(report_size) ==
    IF report_size <= max_chunk_size
    THEN << Message("header", 1, 1, 0, report_size) >>
    ELSE [ k \in 1..num_parts(report_size) |->
             Message(IF k - 1 = 0 THEN "header" ELSE "part",
                     k, num_parts(report_size),
                     chunk_start(k - 1), chunk_end(k - 1, report_size)) ]

\* The one text ConcurrentDeepResearchOrchestrator.send_report_to_slack sends.
formatted_message(report_size) ==
    [prefix |-> "banner", part |-> 1, of |-> 1, start |-> 0,
     end |-> Min({report_size, truncate_at}),
     truncated |-> report_size > truncate_at]

\* What reply_to_thread does:  "ok"  a response with ok true,  "not_ok"  None
\* or a response with ok false,  "raise"  an exception.
Responses == {"ok", "not_ok", "raise"}

\* Step 5 has read report_content and calls send_report_to_slack; in the
\* simple engine  partial  tells that the report was judged incomplete with
\* the retries used up (orchestrator.py line 353).
ReadyToSend(eng, report_size, partial) ==
    [phase |-> "ready", eng |-> eng, report_size |-> report_size,
     partial |-> partial, chunks |-> <<>>, responses |-> <<>>,
     report_sent_to_slack |-> FALSE,
     original |-> [ts |-> 2, thread_ts |-> NoThread], calls |-> <<>>]

\* The thread every reply goes to when the item's own thread_ts is ignored.
thread_ts_OwnTs(original_message) == original_message.ts

\* thread_ts = original_message.thread_ts if original_message.thread_ts
\*             else original_message.ts
thread_ts(original_message) ==
    IF original_message.thread_ts # NoThread
    THEN original_message.thread_ts
    ELSE original_message.ts

\* One call of the Slack client: the thread replied to (NoThread: a message
\* to the channel) and the text.
SlackCall(thread, text) == [thread_ts |-> thread, text |-> text]

\* send_report_to_slack of the simple engine up to the first reply_to_thread.
BeginSend ==
    /\ delivery.phase = "ready"
    /\ delivery.eng = "simple"
    /\ delivery' = [delivery EXCEPT !.phase = "sending",
                                    !.chunks = chunks(delivery.report_size)]
    /\ UNCHANGED <<workerVars, textVars, main_state, listVars, retrieval, retrieval_logs>>

\* One reply_to_thread of the simple engine. Its response replaces the one
\* before; a failure is logged; an exception leaves the function through the
\* except clause.
SendChunk ==
    /\ delivery.phase = "sending"
    /\ Len(delivery.responses) < Len(delivery.chunks)
    /\ \E response \in Responses :
         delivery' = [delivery EXCEPT
                        !.responses = Append(@, response),
                        !.calls = Append(@,
                            SlackCall(thread_ts(delivery.original),
                                      delivery.chunks[Len(delivery.responses) + 1])),
                        !.phase = IF response = "raise" THEN "done" ELSE @]
    /\ UNCHANGED <<workerVars, textVars, main_state, listVars, retrieval, retrieval_logs>>

\* After the last reply_to_thread:  if response and response.get('ok')  and
\* the commit of report_sent_to_slack.
FinishSend ==
    /\ delivery.phase = "sending"
    /\ Len(delivery.responses) = Len(delivery.chunks)
    /\ \E commit_ok \in BOOLEAN :
         delivery' = [delivery EXCEPT
                        !.phase = "done",
                        !.report_sent_to_slack =
                            /\ delivery.responses[Len(delivery.responses)] = "ok"
                            /\ commit_ok]
    /\ UNCHANGED <<workerVars, textVars, main_state, listVars, retrieval, retrieval_logs>>

\* Step 5 of the concurrent engine from the read of the report:
\* send_report_to_slack (one message, nothing returned, exceptions caught) and
\* then mark_report_sent.
SendConcurrent ==
    /\ delivery.phase = "ready"
    /\ delivery.eng = "concurrent"
    /\ \E response \in Responses, commit_ok \in BOOLEAN :
         delivery' = [delivery EXCEPT
                        !.phase = "done",
                        !.chunks = << formatted_message(delivery.report_size) >>,
                        !.responses = << response >>,
                        !.calls = << SlackCall(delivery.original.thread_ts,
                                       formatted_message(delivery.report_size)) >>,
                        !.report_sent_to_slack = commit_ok]
    /\ UNCHANGED <<workerVars, textVars, main_state, listVars, retrieval, retrieval_logs>>

SendInit ==
    /\ WorkersInit
    /\ TextsIdle
    /\ delivery \in { [ReadyToSend(eng, size, partial) EXCEPT !.original = o] :
                        eng \in {"simple", "concurrent"},
                        size \in ReportLengths, partial \in BOOLEAN,
                        o \in Originals }
    /\ delivery.eng = "concurrent" => ~delivery.partial
    /\ main_state = "none"
    /\ ListIdle
    /\ IngestIdle

SendNext ==
    \/ BeginSend
    \/ SendChunk
    \/ FinishSend
    \/ SendConcurrent

SendSpec == SendInit /\ [][SendNext]_vars

\* ------------------------------------------------- main() of orchestrator.py
\* Run-once mode: one process calls run_workflow once, then waits while
\* pending_reports is not empty, for at most max_wait seconds, and exits.
\* main_state:
\*   "running"    run_workflow has not returned
\*   "waiting"    in the wait loop
\*   "exited"     'No reports to process. Exiting.'
\*   "completed"  'All scheduled tasks completed successfully'
\*   "timed_out"  'Report retrieval timed out after 25 minutes'
MainProc == 1

RunStartPass == main_state = "running" /\ passes = 0 /\ StartPass(MainProc, "simple")

RunStep2 == main_state = "running" /\ Step2Simple(MainProc)

RunStep2Error == main_state = "running" /\ Step2SimpleError(MainProc)

RunStep3Job == main_state = "running" /\ Step3Job(MainProc)

RunStep3Read == main_state = "running" /\ Step3Read(MainProc)

\* The timers fire 1320 s and later after run_workflow returned: main is in
\* its wait loop, if it has not exited.
RunStep5 == main_state = "waiting" /\ \E c \in OwnTimers(MainProc) : Step5Simple(c)

\* The process ends: its daemon timer threads end with it.
ProcessExit(p) ==
    /\ timers' = [c \in PassIds |->
                    IF c \in OwnTimers(p) THEN [phase |-> "killed"] ELSE timers[c]]
    /\ orphaned' = orphaned \cup InFlight(p)
    /\ pending_reports' = [pending_reports EXCEPT ![p] = {}]
    /\ UNCHANGED <<storeVars, engine, pc, pass_id, message, passes, crashes,
                   claim_count, last_failed, launch_error, step2_result, textVars,
                   delivery, listVars, retrieval, retrieval_logs>>

\* run_workflow has returned:  if orchestrator.pending_reports.
MainAfterWorkflow ==
    /\ main_state = "running"
    /\ passes = 1
    /\ pc[MainProc] = "idle"
    /\ IF pending_reports[MainProc] # {}
       THEN /\ main_state' = "waiting"
            /\ UNCHANGED <<workerVars, textVars, delivery, listVars,
                           retrieval, retrieval_logs>>
       ELSE /\ main_state' = "exited"
            /\ ProcessExit(MainProc)

\* The wait loop ends because pending_reports is empty.
MainCompleted ==
    /\ main_state = "waiting"
    /\ pending_reports[MainProc] = {}
    /\ main_state' = "completed"
    /\ ProcessExit(MainProc)

\* The wait loop ends because max_wait seconds have passed.
MainTimedOut ==
    /\ main_state = "waiting"
    /\ pending_reports[MainProc] # {}
    /\ main_state' = "timed_out"
    /\ ProcessExit(MainProc)

RunOnceInit ==
    /\ WorkersInit
    /\ TextsIdle
    /\ delivery = NoDelivery
    /\ main_state = "running"
    /\ ListIdle
    /\ IngestIdle

RunOnceNext ==
    \/ RunStartPass
    \/ RunStep2
    \/ RunStep2Error
    \/ RunStep3Job
    \/ RunStep3Read
    \/ RunStep5
    \/ MainAfterWorkflow
    \/ MainCompleted
    \/ MainTimedOut

RunOnceSpec == RunOnceInit /\ [][RunOnceNext]_vars

\* ------------------------------------------------------------- run_continuous
\* One DeepResearchOrchestrator in continuous mode: run_workflow is called at
\* once and then every interval, without end. A pass that armed no timer and
\* wrote no url file leaves its pass id free, and the next pass of the process
\* takes the same id: only launches use up the MaxPasses ids.
RestartPass(p) ==
    /\ pc[p] = "idle"
    /\ engine[p] # "none"
    /\ pass_id[p] # 0
    /\ timers[pass_id[p]] = NoTimer
    /\ url_file # pass_id[p]
    /\ message' = [message EXCEPT ![p] = NoItem]
    /\ step2_result' = [step2_result EXCEPT ![p] = NoResult]
    /\ \E ok \in BOOLEAN :
        IF ok
        THEN /\ \E k \in 0..NItems :
                    slack_messages' = [ts \in Items |->
                        IF ts <= k /\ ~slack_messages[ts].stored /\ ~is_bot(ts)
                        THEN NewRow ELSE slack_messages[ts]]
             /\ pc' = [pc EXCEPT ![p] = "step2"]
        ELSE /\ pc' = [pc EXCEPT ![p] = "idle"]
             /\ UNCHANGED slack_messages
    /\ UNCHANGED <<url_file, latest_report, session_files, lock_holders, engine,
                   pass_id, pending_reports, timers, passes, crashes, histVars>>
    /\ UNCHANGED callVars

\* The first pass, and a pass after one that launched a job.
ContNewPass ==
    /\ IF pass_id[MainProc] = 0 THEN TRUE
                               ELSE timers[pass_id[MainProc]] # NoTimer
    /\ StartPass(MainProc, "simple")

ContRestartPass ==
    /\ engine[MainProc] = "simple"
    /\ RestartPass(MainProc)

ContStep2 == Step2Simple(MainProc)

ContStep2Error == Step2SimpleError(MainProc)

ContStep3Job == Step3Job(MainProc)

ContStep3Read == Step3Read(MainProc)

ContStep5 == \E c \in OwnTimers(MainProc) : Step5Simple(c)

\* The steps of run_workflow, and the timer threads.
ContPassStep ==
    \/ ContNewPass
    \/ ContRestartPass
    \/ ContStep2
    \/ ContStep2Error
    \/ ContStep3Job
    \/ ContStep3Read

ContNext ==
    \/ ContNewPass
    \/ ContRestartPass
    \/ ContStep2
    \/ ContStep2Error
    \/ ContStep3Job
    \/ ContStep3Read
    \/ ContStep5

\* The schedule loop calls run_workflow again and again and a pass that has
\* started goes on; an armed timer fires.
ContinuousSpec ==
    /\ Init
    /\ [][ContNext]_vars
    /\ WF_vars(ContPassStep)
    /\ WF_vars(ContStep5)

\* ------------------------------------------- step 5, the fetch and the read
\* step5_retrieve_and_send_report in two steps, as its timer thread takes
\* them: the subprocess  node retrieve_report.js url  runs and returns, and
\* then the thread lists the reports directory and reads the newest file.
\* Timer threads of several items, of one process or of several, share the
\* directory.

\* The thread of chain t after its subprocess returned (rc_ok: returncode 0;
\* wrote: the subprocess wrote a report file).
Fetched(t, rc_ok, wrote) ==
    [phase |-> "fetched", owner |-> t.owner, eng |-> t.eng, url |-> t.url,
     ts |-> t.ts, retry_count |-> t.retry_count, runs |-> t.runs + 1,
     sends |-> t.sends, all_incomplete |-> t.all_incomplete, sent |-> t.sent,
     rc_ok |-> rc_ok, wrote |-> wrote]

\* The retry timer started by the thread of chain t.
Rearmed(t, all_incomplete) ==
    [phase |-> "armed", owner |-> t.owner, eng |-> t.eng, url |-> t.url,
     ts |-> t.ts, retry_count |-> NextRetry(t.retry_count), runs |-> t.runs,
     sends |-> t.sends, all_incomplete |-> all_incomplete, sent |-> t.sent]

\* subprocess.run(["node", "retrieve_report.js", url], ...) of either engine.
FetchReport(c) ==
    /\ timers[c].phase = "armed"
    /\ \E outcome \in {"wrote", "nothing", "fail"}, inc \in BOOLEAN :
        /\ outcome # "wrote" => ~inc
        /\ latest_report' = AfterRetrieval(outcome, inc, c, timers[c].runs + 1)
        /\ timers' = [timers EXCEPT ![c] =
                        Fetched(@, outcome # "fail", outcome = "wrote")]
    /\ UNCHANGED <<slack_messages, url_file, session_files, lock_holders,
                   procVars, passes, crashes, histVars, step2_result>>
    /\ UNCHANGED callVars

\* DeepResearchOrchestrator: the newest report file is read, and the report
\* is sent or a retry armed; the finally clause.
ReadSimple(c) ==
    /\ timers[c].phase = "fetched"
    /\ timers[c].eng = "simple"
    /\ \E slack_ok \in BOOLEAN, commit_ok \in BOOLEAN :
        LET t == timers[c]
            newest == latest_report
            readable == t.rc_ok /\ newest # NoReport
            incomplete == readable /\ newest.incomplete
            reschedule == Reschedules(readable, incomplete, t.retry_count)
            send == readable /\ ~reschedule
            seen == [t EXCEPT !.all_incomplete = @ /\ incomplete]
        IN
        /\ ~send => (slack_ok /\ commit_ok)
        /\ ~slack_ok => commit_ok
        /\ slack_messages' =
                IF send /\ slack_ok /\ commit_ok
                THEN [slack_messages EXCEPT ![t.ts].report_sent_to_slack = TRUE]
                ELSE slack_messages
        /\ orphaned' = IF send /\ slack_ok THEN orphaned \ {t.ts} ELSE orphaned
        /\ timers' = [timers EXCEPT ![c] =
                        IF reschedule
                        THEN Rearmed(t, seen.all_incomplete)
                        ELSE IF send
                        THEN Finished(seen, t.sends + 1, ContentOf(newest))
                        ELSE Finished(seen, t.sends, t.sent)]
        /\ pending_reports' =
                IF RemovesPending(t.retry_count, t.url, pending_reports[t.owner])
                THEN [pending_reports EXCEPT ![t.owner] = @ \ {t.url}]
                ELSE pending_reports
    /\ UNCHANGED <<url_file, latest_report, session_files, lock_holders, engine,
                   pc, pass_id, message, passes, crashes, claim_count,
                   last_failed, launch_error>>
    /\ UNCHANGED callVars
    /\ UNCHANGED step2_result

\* ConcurrentDeepResearchOrchestrator: the newest report file of the last
\* 120 s is read (the file this thread's fetch has just written is recent),
\* sent, and mark_report_sent called; the session file is removed.
ReadConcurrent(c) ==
    /\ timers[c].phase = "fetched"
    /\ timers[c].eng = "concurrent"
    /\ \E recent \in BOOLEAN, slack_ok \in BOOLEAN, commit_ok \in BOOLEAN :
        LET t == timers[c]
            newest == latest_report
            readable == t.rc_ok /\ newest # NoReport /\ recent
            seen == [t EXCEPT !.all_incomplete = @ /\ readable /\ newest.incomplete]
        IN
        /\ (newest = NoReport \/ (newest.chain = c /\ newest.n = t.runs)) => recent
        /\ ~readable => (slack_ok /\ commit_ok)
        /\ slack_messages' =
                IF readable /\ commit_ok
                THEN [slack_messages EXCEPT ![t.ts] = SentRow(@, t.url)]
                ELSE slack_messages
        /\ orphaned' = IF readable /\ slack_ok THEN orphaned \ {t.ts} ELSE orphaned
        /\ timers' = [timers EXCEPT ![c] =
                        IF readable
                        THEN Finished(seen, t.sends + 1, ContentOf(newest))
                        ELSE Finished(seen, t.sends, t.sent)]
    /\ session_files' = session_files \ {c}
    /\ UNCHANGED <<url_file, latest_report, lock_holders, procVars, passes,
                   crashes, claim_count, last_failed, launch_error>>
    /\ UNCHANGED callVars
    /\ UNCHANGED step2_result

\* The passes of the processes and the timer threads they start, the threads
\* interleaved at the fetch and at the read.
FetchNext ==
    \/ \E p \in Procs, e \in {"simple", "concurrent"} : StartPass(p, e)
    \/ \E p \in Procs : Step2Simple(p)
    \/ \E p \in Procs : Step2SimpleError(p)
    \/ \E p \in Procs : ConcQuery(p)
    \/ \E p \in Procs : ConcLockTimeout(p)
    \/ \E p \in Procs : ConcCommit(p)
    \/ \E p \in Procs : Step3Job(p)
    \/ \E p \in Procs : Step3Read(p)
    \/ \E c \in PassIds : FetchReport(c)
    \/ \E c \in PassIds : ReadSimple(c)
    \/ \E c \in PassIds : ReadConcurrent(c)

FetchSpec == Init /\ [][FetchNext]_vars

\* ----------------------------------- ConcurrentDeepResearchOrchestrator only
\* Every process runs orchestrator_concurrent.py.
ConcurrentNext ==
    \/ \E p \in Procs : StartPass(p, "concurrent")
    \/ \E p \in Procs : RestartPass(p)
    \/ \E p \in Procs : ConcQuery(p)
    \/ \E p \in Procs : ConcLockTimeout(p)
    \/ \E p \in Procs : ConcCommit(p)
    \/ \E p \in Procs : Step3Job(p)
    \/ \E p \in Procs : Step3Read(p)
    \/ \E c \in PassIds : Step5Concurrent(c)
    \/ \E p \in Procs : Crash(p)

ConcurrentSpec == Init /\ [][ConcurrentNext]_vars

\* -------------------------------- step 5, the listing of the reports directory
\* ConcurrentDeepResearchOrchestrator.step5_retrieve_and_send_report after
\* retrieve_report.js returned 0: the report files are listed, those modified
\* within the last 120 s are the candidates, the newest candidate is read,
\* sent, and mark_report_sent called.
MaxFiles == 3

report_window == 120

\* time.time() when the cutoff is computed.
Now == 1000

\* The st_mtime values drawn: long ago, just outside the window, on its
\* edge, just inside, and now.
Mtimes ==
    { Now - 500, Now - report_window - 1, Now - report_window,
      Now - report_window + 1, Now }

ReportFiles == [name : 1..MaxFiles, mtime : Mtimes]

\* The directories drawn: at most one file per name.
Directories ==
    { d \in SUBSET ReportFiles : \A f, g \in d : f.name = g.name => f = g }

\* cutoff_time = time.time() - 120
cutoff_time(now) == now - report_window

\* The listing without the window.
recent_reports_All(files, now) == files

\* recent_reports: the files with  st_mtime > cutoff_time.
recent_reports(files, now) == { f \in files : f.mtime > cutoff_time(now) }

\* max(recent_reports, key=st_mtime): a file of the largest st_mtime.
IsLatest(f, files) == f \in files /\ \A g \in files : g.mtime <= f.mtime

NotFound(why) == [status |-> why, sent |-> FALSE, marked |-> FALSE]

\* The three branches: a recent report is read, sent and marked; "No recent
\* report files found"; "No report files found".
ListReports ==
    /\ listing = NoListing
    /\ LET recent == recent_reports(report_files, Now) IN
        IF report_files = {}
        THEN listing' = NotFound("no_files")
        ELSE IF recent = {}
        THEN listing' = NotFound("no_recent")
        ELSE \E f \in recent :
                /\ IsLatest(f, recent)
                /\ listing' = [status |-> "read", file |-> f,
                               sent |-> TRUE, marked |-> TRUE]
    /\ UNCHANGED <<workerVars, textVars, delivery, main_state, report_files,
                   retrieval, retrieval_logs>>

WindowInit ==
    /\ WorkersInit
    /\ TextsIdle
    /\ delivery = NoDelivery
    /\ main_state = "none"
    /\ report_files \in Directories
    /\ listing = NoListing
    /\ IngestIdle

WindowNext == ListReports

WindowSpec == WindowInit /\ [][WindowNext]_vars

\* ------------------------- step 3 of the concurrent engine, the script text
\* new_query = f'const searchQuery = "{search_query.replace('"', '\\"')}";'
\* of ConcurrentDeepResearchOrchestrator: the double quote is the one
\* character replaced.
session_query(text) == Replace(text, DQ, <<BS, DQ>>)

\* Step 3 up to the write of deep-research-<session>.js.
WriteSessionScript ==
    /\ script_query = old_query
    /\ script_query' = session_query(search_query)
    /\ UNCHANGED <<workerVars, search_query, report_content, verdict,
                   delivery, main_state, listVars, retrieval, retrieval_logs>>

SessionScriptNext == WriteSessionScript

SessionScriptSpec == EscapeInit /\ [][SessionScriptNext]_vars

\* ------------------------------- SlackMessageRetriever.get_channel_messages
\* The inside of step 1, one call per orchestrator instance, each instance
\* with the database session it opened in __init__. A row added to a session
\* is written to the slack_messages table when the session flushes: before
\* the query of the next _message_exists (the session autoflushes), or in
\* the commit after the loop. ts is the primary key of the table.

\* The flush of p's session inserts a ts that another session has committed
\* since p's _message_exists found no row: the insert raises IntegrityError.
FlushFails(p) == \E ts \in retrieval[p].pending : slack_messages[ts].stored

\* retrieval_log = MessageRetrievalLog(status='in_progress'); add; commit.
BeginRetrieval(p) ==
    /\ retrieval[p].phase = "none"
    /\ retrieval' = [retrieval EXCEPT ![p].phase = "fetch"]
    /\ retrieval_logs' = [retrieval_logs EXCEPT ![p] = "in_progress"]
    /\ UNCHANGED <<workerVars, textVars, delivery, main_state, listVars>>

\* _fetch_channel_history returns the messages of the channel's last 24
\* hours, newest first: those up to some ts k.
FetchHistory(p) ==
    /\ retrieval[p].phase = "fetch"
    /\ \E k \in 0..NItems :
        retrieval' = [retrieval EXCEPT ![p].phase = "loop", ![p].found = 1..k,
                                       ![p].fetched = 1..k]
    /\ UNCHANGED <<workerVars, textVars, delivery, main_state, listVars,
                   retrieval_logs>>

\* _fetch_channel_history raises SlackApiError: the except branch sets the
\* log row to 'failed', commits, and the call returns stats with the error.
FetchFails(p) ==
    /\ retrieval[p].phase = "fetch"
    /\ retrieval' = [retrieval EXCEPT ![p].phase = "returned"]
    /\ retrieval_logs' = [retrieval_logs EXCEPT ![p] = "failed"]
    /\ UNCHANGED <<workerVars, textVars, delivery, main_state, listVars>>

\* except Exception, entered after a flush of the session failed:
\* retrieval_log.status = 'failed' and db_session.commit() with no rollback
\* before it. The session's transaction was rolled back by the failed flush,
\* so the rows it had added are not written; whether the commit is accepted
\* depends on the state the library leaves the session in. If it is, the
\* call returns stats; if it raises, the exception leaves
\* get_channel_messages and the log row keeps the status committed last.
ExceptAfterFlush(p) ==
    \E accepted \in BOOLEAN :
        /\ retrieval' = [retrieval EXCEPT
                ![p].phase = IF accepted THEN "returned" ELSE "raised",
                ![p].pending = {}]
        /\ retrieval_logs' = [retrieval_logs EXCEPT
                ![p] = IF accepted THEN "failed" ELSE @]

\* One turn of  for message in messages : the bot filter, _message_exists
\* (whose query first flushes the session), _store_message.
HandleMessage(p) ==
    /\ retrieval[p].phase = "loop"
    /\ retrieval[p].found # {}
    /\ LET ts == Max(retrieval[p].found) IN
        IF is_bot(ts)
        THEN /\ retrieval' = [retrieval EXCEPT ![p].found = @ \ {ts}]
             /\ UNCHANGED retrieval_logs
        ELSE IF FlushFails(p)
        THEN ExceptAfterFlush(p)
        ELSE /\ retrieval' = [retrieval EXCEPT
                    ![p].found = @ \ {ts},
                    ![p].pending = IF slack_messages[ts].stored
                                   THEN @ ELSE @ \cup {ts}]
             /\ UNCHANGED retrieval_logs
    /\ UNCHANGED <<workerVars, textVars, delivery, main_state, listVars>>

\* After the loop: db_session.commit() writes the added rows, then the log
\* row is set to 'completed' and committed, and stats is returned.
CommitMessages(p) ==
    /\ retrieval[p].phase = "loop"
    /\ retrieval[p].found = {}
    /\ IF FlushFails(p)
       THEN /\ ExceptAfterFlush(p)
            /\ UNCHANGED slack_messages
       ELSE /\ slack_messages' = [ts \in Items |->
                    IF ts \in retrieval[p].pending
                    THEN NewRow ELSE slack_messages[ts]]
            /\ retrieval' = [retrieval EXCEPT ![p].phase = "returned",
                                              ![p].pending = {}]
            /\ retrieval_logs' = [retrieval_logs EXCEPT ![p] = "completed"]
    /\ UNCHANGED <<url_file, latest_report, session_files, lock_holders,
                   procVars, timers, passes, crashes, histVars, step2_result>>
    /\ UNCHANGED <<textVars, delivery, main_state, listVars>>

\* step1_retrieve_slack_messages: True when get_channel_messages returned,
\* False when an exception left it.
step1_result(p) ==
    IF retrieval[p].phase = "returned" THEN "true"
    ELSE IF retrieval[p].phase = "raised" THEN "false"
    ELSE "running"

IngestNext ==
    \E p \in Procs :
        \/ BeginRetrieval(p)
        \/ FetchHistory(p)
        \/ FetchFails(p)
        \/ HandleMessage(p)
        \/ CommitMessages(p)

IngestSpec == Init /\ [][IngestNext]_vars

\* ------------------------------------------------------------ properties
\* The processes that hold ts between its selection and the end of step 3.
Launching(ts) ==
    { p \in Procs : pc[p] \in {"commit", "step3", "step3_read"} /\ message[p] = ts }

\* The timer chains armed for ts that are still to fire.
LiveChains(ts) == { c \in PassIds : Live(c) /\ timers[c].ts = ts }

\* The timer chains of ts that have ended.
DoneChains(ts) == { c \in PassIds : timers[c].phase = "done" /\ timers[c].ts = ts }

\* Nothing is working on ts, and it is not selectable: no step changes its
\* row any more.
Abandoned(ts) ==
    /\ slack_messages[ts].processed
    /\ Launching(ts) = {}
    /\ LiveChains(ts) = {}

\* C1: step2_get_and_lock_unprocessed_message returns each item to at most
\* one ConcurrentDeepResearchOrchestrator instance, in every interleaving.
C1_ClaimedAtMostOnce == \A ts \in Items : claim_count[ts] <= 1

\* Two instances contended: one was returned an item, the other queried
\* under the lock afterwards and holds a different row.
C1_Witness ==
    \E p, q \in Procs :
        /\ p # q
        /\ engine[p] = "concurrent" /\ engine[q] = "concurrent"
        /\ pc[p] = "step3" /\ claim_count[message[p]] = 1
        /\ pc[q] = "commit" /\ message[q] # message[p]

\* C2: no item is selected by step2_get_oldest_unprocessed_message and
\* handed to step3_generate_deep_research by two DeepResearchOrchestrator
\* processes at once.
C2_NoDoubleHandOff ==
    \A p, q \in Procs :
        ( /\ p # q
          /\ engine[p] = "simple" /\ engine[q] = "simple"
          /\ pc[p] \in {"step3", "step3_read"}
          /\ pc[q] \in {"step3", "step3_read"} )
        => message[p] # message[q]

\* The step in which run_workflow of DeepResearchOrchestrator returns False
\* because step 3 returned None.
SimpleLaunchFails(p) ==
    /\ engine[p] = "simple"
    /\ pc[p] \in {"step3", "step3_read"}
    /\ pc'[p] = "idle"
    /\ last_failed'[p] = message[p]

\* Process p is the only one that has run, and no timer chain was created.
OnlyWorker(p) ==
    /\ \A q \in Procs \ {p} : pass_id[q] = 0
    /\ \A c \in PassIds : timers[c] = NoTimer

\* C3: when step3_generate_deep_research fails in
\* DeepResearchOrchestrator.run_workflow, the pass writes nothing to the
\* store and schedules no deferred task, so the item keeps processed=False,
\* report_generated=False and report_sent_to_slack=False (as it was when the
\* only worker selected it), and the next pass that selects an item selects
\* the same one while it is unprocessed.
C3_FailedLaunchRetried ==
    [][\A p \in Procs :
        /\ SimpleLaunchFails(p) =>
            /\ slack_messages' = slack_messages
            /\ timers' = timers
            /\ pending_reports' = pending_reports
            /\ OnlyWorker(p) => slack_messages'[message[p]] = NewRow
        /\ ( /\ engine[p] = "simple"
             /\ pc[p] = "step2" /\ pc'[p] = "step3"
             /\ last_failed[p] # NoItem
             /\ ~slack_messages[last_failed[p]].processed )
           => message'[p] = last_failed[p]]_vars

\* The launch of an item failed in one pass, newer messages arrived, and the
\* next pass of the process selected the same item again, its flags False.
C3_Witness ==
    \E p \in Procs :
        /\ engine[p] = "simple"
        /\ last_failed[p] # NoItem
        /\ pc[p] = "step3"
        /\ message[p] = last_failed[p]
        /\ slack_messages[message[p]] = NewRow
        /\ \E ts \in Items : ts > message[p] /\ slack_messages[ts] = NewRow

\* C4: after step3_generate_deep_research failed in
\* ConcurrentDeepResearchOrchestrator.run_workflow the item's processed flag
\* is False, so that a later pass claims it again.
C4_FailedLaunchRetryable ==
    \A p \in Procs :
        (engine[p] = "concurrent" /\ last_failed[p] # NoItem)
        => ~slack_messages[last_failed[p]].processed

\* C5: no item that was in flight in a process that crashed is left with
\* report_sent_to_slack=False while it is unclaimable (processed=True) and
\* nothing is working on it.
C5_NoItemStranded ==
    \A ts \in orphaned :
        ~(Abandoned(ts) /\ ~slack_messages[ts].report_sent_to_slack)

\* C6: a timer chain of DeepResearchOrchestrator in which every fetch read a
\* report judged incomplete runs step5 max_retries + 1 = 4 times, with
\* retry_count 0, 1, 2, 3 (runs counts them), sends nothing before the last
\* run, and in the last run calls send_report_to_slack once with the content
\* of the report that run read.
C6_RetryExhaustion ==
    [][\A c \in PassIds :
        /\ (timers'[c].phase = "armed" /\ timers'[c].eng = "simple") =>
            /\ timers'[c].runs = timers'[c].retry_count
            /\ timers'[c].retry_count <= max_retries
            /\ timers'[c].sends = 0
        /\ ( /\ timers[c].phase = "armed" /\ timers[c].eng = "simple"
             /\ timers'[c].phase = "done" /\ timers'[c].all_incomplete ) =>
            /\ timers[c].retry_count = max_retries
            /\ timers'[c].runs = max_retries + 1
            /\ timers'[c].sends = 1
            /\ timers'[c].sent = ContentOf(latest_report')]_vars

\* A chain ended after four runs that each read an incomplete report, the
\* last of which it sent.
C6_Witness ==
    \E c \in PassIds :
        /\ timers[c].phase = "done" /\ timers[c].eng = "simple"
        /\ timers[c].all_incomplete
        /\ timers[c].runs = 4
        /\ timers[c].sends = 1
        /\ timers[c].sent = [chain |-> c, n |-> 4]

\* C7: an item launched by DeepResearchOrchestrator whose timer chain has
\* ended, and on which nothing works any more, has had a report sent
\* (send_report_to_slack was called for it).
C7_LaunchedIsDelivered ==
    \A c \in PassIds :
        ( /\ timers[c].phase = "done" /\ timers[c].eng = "simple"
          /\ Abandoned(timers[c].ts) )
        => \E d \in DoneChains(timers[c].ts) : timers[d].sends >= 1

\* C8: for every row, report_generated implies processed and
\* report_sent_to_slack implies report_generated.
C8_FlagOrder ==
    \A ts \in Items :
        /\ slack_messages[ts].report_generated => slack_messages[ts].processed
        /\ slack_messages[ts].report_sent_to_slack => slack_messages[ts].report_generated

\* The rows step2_get_oldest_unprocessed_message may return: stored,
\* processed=False, is_bot=False, text matching no system pattern.
Eligible ==
    { ts \in Items :
        /\ slack_messages[ts].stored
        /\ ~slack_messages[ts].processed
        /\ ~is_bot(ts)
        /\ ts \notin SystemItems }

C10_SystemNeverLaunched ==
    \A ts \in Items :
        MessageText(ts) = JoinText =>
            /\ ~slack_messages[ts].report_generated
            /\ ~slack_messages[ts].report_sent_to_slack
            /\ claim_count[ts] = 0
            /\ \A p \in Procs :
                pc[p] \in {"step3", "step3_read"} =>
                    /\ message[p] # ts
                    /\ (message[p] > ts /\ slack_messages[ts].stored)
                        => slack_messages[ts].processed
            /\ LiveChains(ts) = {}
            /\ DoneChains(ts) = {}

\* The join notification was marked processed and the row after it handed
\* to step 3.
C10_Witness ==
    \E ts \in Items, p \in Procs :
        /\ MessageText(ts) = JoinText
        /\ slack_messages[ts].processed
        /\ ~slack_messages[ts].report_generated
        /\ pc[p] = "step3"
        /\ message[p] > ts

\* The character an escape sequence  \c  stands for in a JavaScript string
\* literal; a backslash before a line terminator is a line continuation.
JsEscapeValue(c) ==
    CASE c = "n" -> <<NL>>
      [] c = "r" -> <<CR>>
      [] c = "t" -> <<TAB>>
      [] c \in {NL, CR} -> <<>>
      [] OTHER -> <<c>>

\* The value of the JavaScript literal  "s"  read from position i;  ok  is
\* FALSE when the literal does not end where s ends (a bare quote, a bare
\* line terminator, or a backslash that takes the closing quote).
RECURSIVE JsUnescapeFrom(_, _)
JsUnescapeFrom(s, i) ==
    IF i > Len(s) THEN [ok |-> TRUE, text |-> <<>>]
    ELSE IF s[i] \in {DQ, NL, CR} THEN [ok |-> FALSE, text |-> <<>>]
    ELSE IF s[i] = BS
         THEN IF i = Len(s) THEN [ok |-> FALSE, text |-> <<>>]
              ELSE LET rest == JsUnescapeFrom(s, i + 2)
                   IN  [ok |-> rest.ok,
                        text |-> IF rest.ok THEN JsEscapeValue(s[i + 1]) \o rest.text
                                 ELSE <<>>]
    ELSE LET rest == JsUnescapeFrom(s, i + 1)
         IN  [ok |-> rest.ok,
              text |-> IF rest.ok THEN <<s[i]>> \o rest.text ELSE <<>>]

JsUnescape(s) == JsUnescapeFrom(s, 1)

\* C18: the query written into the script, read back as a JavaScript
\* double-quoted string literal, is the original query text, for every text
\* over backslash, quote, newline, carriage return, tab and letters.
C18_EscapeRoundTrip ==
    script_query # old_query =>
        JsUnescape(script_query) = [ok |-> TRUE, text |-> search_query]

\* A text holding a backslash followed by the letter n, and a quote, has been
\* written.
C18_Witness ==
    /\ search_query = <<BS, "n", DQ>>
    /\ script_query = <<BS, BS, "n", BS, DQ>>

n_lines(text) == Cardinality(LineStarts(text))

\* The comparison in exact arithmetic: more than seven tenths.
ExceedsPoint7_Exact(links, lines) == 10 * links > 7 * lines

HasIndicator(text) ==
    \E indicator \in incomplete_indicators : Contains(Lower(indicator), Lower(text))

\* C17: a report is judged incomplete exactly when it is shorter than 1000
\* characters, or holds an in-progress phrase in any letter case, or has more
\* than 10 lines of which strictly more than 70% hold 'http' or 'www.'.
C17_IncompleteExactly ==
    verdict # NoVerdict =>
        ( verdict = "incomplete"
          <=> \/ Len(report_content) < 1000
              \/ HasIndicator(report_content)
              \/ /\ n_lines(report_content) > 10
                 /\ 10 * source_lines(report_content) > 7 * n_lines(report_content) )

\* The same, for every report but those where the double  len(lines) * 0.7
\* is not seven tenths of the line count.
C17_UpToRounding ==
    /\ verdict # NoVerdict
    /\ ExceedsPoint7(source_lines(report_content), n_lines(report_content))
         = ExceedsPoint7_Exact(source_lines(report_content), n_lines(report_content))
    => ( verdict = "incomplete"
         <=> \/ Len(report_content) < 1000
             \/ HasIndicator(report_content)
             \/ /\ n_lines(report_content) > 10
                /\ 10 * source_lines(report_content) > 7 * n_lines(report_content) )

\* Boundary reports that are judged as the claim says: 1000 characters in one
\* clean line are complete.
C17_CleanThousand ==
    /\ Len(report_content) = 1000
    /\ n_lines(report_content) = 1
    /\ ~HasIndicator(report_content)
    /\ verdict = "complete"

\* A call of the simple engine's send_report_to_slack that has built its
\* messages.
SimpleSend == delivery.eng = "simple" /\ delivery.phase \in {"sending", "done"}

AllAcknowledged ==
    /\ Len(delivery.responses) = Len(delivery.chunks)
    /\ \A k \in 1..Len(delivery.responses) : delivery.responses[k] = "ok"

\* C12: when the simple engine sends a report in several chunks,
\* report_sent_to_slack is set True only if the reply_to_thread of every chunk
\* was acknowledged with ok.
C12_AllChunksAcknowledged ==
    ( /\ SimpleSend
      /\ Len(delivery.chunks) > 1
      /\ delivery.report_sent_to_slack )
    => AllAcknowledged

\* C13: in step 5 of the concurrent engine, when the Slack send answers with
\* ok false or raises, the item does not get report_sent_to_slack=True.
C13_FailedSendNotMarked ==
    ( /\ delivery.eng = "concurrent"
      /\ delivery.phase = "done"
      /\ delivery.responses[1] # "ok" )
    => ~delivery.report_sent_to_slack

\* The messages, header and markers stripped, are the slices
\* report_content[start:end]; in order they make up report_content exactly
\* when the first starts at 0, each next starts where the one before ends, and
\* the last ends at len(report_content).
Tiles(messages, report_size) ==
    /\ Len(messages) >= 1
    /\ messages[1].start = 0
    /\ messages[Len(messages)].end = report_size
    /\ \A k \in 1..Len(messages) : messages[k].start <= messages[k].end
    /\ \A k \in 1..(Len(messages) - 1) : messages[k + 1].start = messages[k].end

\* What is put before the slice can be told and taken off: the first message
\* has the fixed header, message k > 1 has the marker [Part k/N].
Strippable(messages) ==
    \A k \in 1..Len(messages) :
        /\ ~messages[k].truncated
        /\ messages[k].prefix = IF k = 1 THEN "header" ELSE "part"
        /\ k > 1 => (messages[k].part = k /\ messages[k].of = Len(messages))

\* C14: the messages of the simple engine's send_report_to_slack, in send
\* order and with the header or [Part i/N] marker taken off, concatenate to
\* the report text: nothing lost, duplicated or reordered. The messages
\* handed to reply_to_thread are the first Len(responses) of them.
C14_ChunksConcatenate ==
    SimpleSend =>
        /\ Strippable(delivery.chunks)
        /\ Tiles(delivery.chunks, delivery.report_size)
        /\ ( /\ delivery.phase = "done"
             /\ \A k \in 1..Len(delivery.responses) : delivery.responses[k] # "raise" )
           => Len(delivery.responses) = Len(delivery.chunks)

\* A report of 105001 characters went out in four messages.
C14_Witness ==
    /\ SimpleSend
    /\ delivery.phase = "done"
    /\ delivery.report_size = 3 * 35000 + 1
    /\ Len(delivery.chunks) = 4
    /\ AllAcknowledged

CeilDiv(a, b) == (a + b - 1) \div b

PayloadLength(m) == m.end - m.start

\* C15 as stated: one message up to 35000 characters, two for 35001, and for
\* every length ceil(length/35000) messages, each with a payload of 1 to 35000
\* characters.
C15_MessageCount_AsStated ==
    SimpleSend =>
        /\ delivery.report_size <= 35000 => Len(delivery.chunks) = 1
        /\ delivery.report_size = 35001 => Len(delivery.chunks) = 2
        /\ Len(delivery.chunks) = CeilDiv(delivery.report_size, 35000)
        /\ \A k \in 1..Len(delivery.chunks) :
               /\ PayloadLength(delivery.chunks[k]) >= 1
               /\ PayloadLength(delivery.chunks[k]) <= 35000

\* C15, amended: one message up to 35000 characters, two for 35001; for every
\* length of at least 1, ceil(length/35000) messages, each with a payload of 1
\* to 35000 characters; for the empty report one message with the header and
\* an empty payload.
C15_MessageCount ==
    SimpleSend =>
        /\ delivery.report_size <= 35000 => Len(delivery.chunks) = 1
        /\ delivery.report_size = 35001 => Len(delivery.chunks) = 2
        /\ delivery.report_size >= 1 =>
             /\ Len(delivery.chunks) = CeilDiv(delivery.report_size, 35000)
             /\ \A k \in 1..Len(delivery.chunks) :
                    /\ PayloadLength(delivery.chunks[k]) >= 1
                    /\ PayloadLength(delivery.chunks[k]) <= 35000
        /\ delivery.report_size = 0 =>
             /\ Len(delivery.chunks) = 1
             /\ PayloadLength(delivery.chunks[1]) = 0

\* A report of 35001 characters went out in two messages, the second with one
\* character.
C15_Witness ==
    /\ SimpleSend
    /\ delivery.phase = "done"
    /\ delivery.report_size = 35001
    /\ Len(delivery.chunks) = 2
    /\ PayloadLength(delivery.chunks[2]) = 1
    /\ Len(delivery.responses) = 2

\* C16: a report sent by the simple engine because the retries are used up
\* while it is still judged incomplete goes out marked as partial: the
\* messages differ from those sent for the same text judged complete.
C16_PartialAnnotated ==
    (SimpleSend /\ delivery.partial)
    => delivery.chunks # chunks(delivery.report_size)

\* C11: in run-once mode main() reports completion and exits only when, for
\* the item it launched, the report has been sent or the retries are used up;
\* no fetch or retry timer of its own is armed at that exit (such a timer ends
\* with the process).
C11_ExitOnlyWhenSettled ==
    main_state = "completed" =>
        \A c \in PassIds :
            timers[c].phase # "none" =>
                /\ timers[c].phase = "done"
                /\ timers[c].sends >= 1 \/ timers[c].runs = max_retries + 1

\* What does hold: main reports completion only after step 5 ran at least
\* once for the item.
C11_ExitAfterFirstFetch ==
    main_state = "completed" =>
        \E c \in PassIds :
            \/ timers[c].phase = "killed"
            \/ timers[c].phase = "done" /\ timers[c].runs >= 1

\* p is in step 2 of the concurrent engine while another process holds the
\* file lock, and leaves step 2 without being killed.
LockTimeoutStep(p) ==
    /\ pc[p] = "step2"
    /\ engine[p] = "concurrent"
    /\ lock_holders \ {p} # {}
    /\ pc'[p] # "step2"
    /\ crashes' = crashes

\* C19: when the file lock is not acquired within its timeout, step 2 of the
\* concurrent engine returns None without raising, no row is changed, and
\* run_workflow ends the pass as an idle pass: nothing is launched, no job
\* launch is counted as failed, no timer or session file appears, and the lock
\* stays with its holder.
C19_LockTimeoutIdlePass ==
    [][ \A p \in Procs :
          LockTimeoutStep(p) =>
            /\ pc'[p] = "idle"
            /\ message'[p] = NoItem
            /\ slack_messages' = slack_messages
            /\ claim_count' = claim_count
            /\ last_failed' = last_failed
            /\ timers' = timers
            /\ session_files' = session_files
            /\ pending_reports' = pending_reports
            /\ url_file' = url_file
            /\ lock_holders' = lock_holders ]_vars

\* Process 2 ended its pass on the lock timeout while process 1 held the lock
\* over an unprocessed request.
C19_Witness ==
    /\ step2_result[2].why = "lock_timeout"
    /\ pc[2] = "idle"
    /\ pc[1] = "commit"
    /\ lock_holders = {1}
    /\ ~slack_messages[message[1]].processed

\* The commit of processed=True in step 2 of the concurrent engine fails for
\* the request p selected.
FailedClaimStep(p) ==
    /\ pc[p] = "commit"
    /\ ~is_system_message(MessageText(message[p]))
    /\ pc'[p] = "idle"
    /\ crashes' = crashes

\* C20: when the commit that marks the item processed fails in step 2 of the
\* concurrent engine, the change is rolled back and None is returned: no row
\* differs from before, the item is processed=False if it was, it is not
\* counted as claimed, nothing is launched, and the lock is released.
C20_FailedClaimRolledBack ==
    [][ \A p \in Procs :
          FailedClaimStep(p) =>
            /\ slack_messages' = slack_messages
            /\ ~slack_messages[message[p]].processed
                  => message[p] \in Unprocessed(slack_messages')
            /\ claim_count' = claim_count
            /\ message'[p] = NoItem
            /\ timers' = timers
            /\ p \notin lock_holders' ]_vars

\* The claim of request 2 failed in process 1 and was rolled back; the next
\* pass, by process 2, has claimed request 2.
C20_Witness ==
    /\ step2_result[1] = [why |-> "rollback", ts |-> 2]
    /\ pc[1] = "idle"
    /\ pc[2] = "step3"
    /\ engine[2] = "concurrent"
    /\ message[2] = 2
    /\ claim_count[2] = 1
    /\ slack_messages[2].processed

\* The job of p's pass has exited with code 0, the url file does not exist,
\* and p goes on (without being killed).
NoUrlFileStep(p) ==
    /\ pc[p] = "step3_read"
    /\ engine[p] = "simple"
    /\ url_file = NoUrl
    /\ pc'[p] # "step3_read"
    /\ crashes' = crashes

\* C21: when the job process exited with code 0 and deep-research-start-url.json
\* does not exist, step 3 returns no url and the pass is a launch failure: no
\* row is changed (the item gets no report_generated and no report_content),
\* no timer is armed and nothing is added to pending_reports.
C21_NoUrlFileIsLaunchFailure ==
    [][ \A p \in Procs :
          NoUrlFileStep(p) =>
            /\ pc'[p] = "idle"
            /\ last_failed'[p] = message[p]
            /\ slack_messages' = slack_messages
            /\ timers' = timers
            /\ pending_reports' = pending_reports
            /\ session_files' = session_files ]_vars

\* Process 1 ended a pass for request 2 because the url file was missing:
\* the row is as stored, and no timer chain exists.
C21_Witness ==
    /\ launch_error[1] = "no_url_file"
    /\ engine[1] = "simple"
    /\ pc[1] = "idle"
    /\ last_failed[1] = 2
    /\ slack_messages[2] = NewRow
    /\ \A c \in PassIds : timers[c] = NoTimer
    /\ pending_reports[1] = {}

\* Passes go on: a pass id is free again and again (launches have not used
\* them all up), and step 2 hands an item to step 3 again and again.
PassesGoOn ==
    /\ []<>(passes < MaxPasses)
    /\ []<>(pc[MainProc] = "step3")

\* C22: in continuous mode, as long as passes go on, every stored unprocessed
\* request is eventually selected (handed to step 3) by some pass, whatever
\* happens to the other items, even if the job launch of one of them fails
\* on every attempt.
C22_OthersEventuallySelected ==
    PassesGoOn =>
        \A ts \in Items :
            (ts \in Eligible) ~> (pc[MainProc] = "step3" /\ message[MainProc] = ts)

\* C23: in every reachable state in which a timer of a DeepResearchOrchestrator
\* is armed for a url (the first one of step 4 or a retry of step 5), the url
\* is a key of the pending_reports of the orchestrator that armed it.
C23_ArmedUrlIsPending ==
    \A c \in PassIds :
        (Live(c) /\ timers[c].eng = "simple") =>
            timers[c].url \in pending_reports[timers[c].owner]

\* A step5 call of chain c of a DeepResearchOrchestrator.
Fires(c) ==
    /\ Live(c)
    /\ timers[c].eng = "simple"
    /\ timers'[c] # timers[c]
    /\ crashes' = crashes

\* ... whose fetch wrote the report file that the call then read.
FiresAndReads(c) ==
    /\ Fires(c)
    /\ latest_report' # NoReport
    /\ latest_report'.chain = c
    /\ latest_report'.n = timers[c].runs + 1

\* C24: a step5 firing that read the report it fetched either finds it
\* incomplete with retry_count < max_retries, and then leaves one timer armed
\* with retry_count + 1 and delivers nothing, or else delivers what it read
\* exactly once and leaves no timer armed.
C24_RetryOrDeliverOnce ==
    [][ \A c \in PassIds :
          FiresAndReads(c) =>
            IF latest_report'.incomplete /\ timers[c].retry_count < max_retries
            THEN /\ timers'[c].phase = "armed"
                 /\ timers'[c].retry_count = timers[c].retry_count + 1
                 /\ timers'[c].sends = timers[c].sends
                 /\ slack_messages' = slack_messages
            ELSE /\ timers'[c].phase = "done"
                 /\ timers'[c].sends = timers[c].sends + 1
                 /\ timers'[c].sent = ContentOf(latest_report') ]_vars

\* One chain has delivered the report it read, another has just read an
\* incomplete report and armed the next retry.
C24_Witness ==
    \E c, d \in PassIds :
        /\ timers[c].phase = "done"
        /\ timers[c].eng = "simple"
        /\ timers[c].sends = 1
        /\ timers[c].sent.chain = c
        /\ Live(d)
        /\ timers[d].eng = "simple"
        /\ timers[d].retry_count = 2
        /\ timers[d].sends = 0
        /\ latest_report # NoReport
        /\ latest_report.chain = d
        /\ latest_report.n = timers[d].runs
        /\ latest_report.incomplete

\* C25: the chain of step5 firings of a launched item is finite whatever the
\* fetches give. A firing either arms the one next timer, with retry_count
\* exactly one higher, or ends the chain with no timer armed; the firing at
\* retry_count = max_retries always ends it; and no chain has more than
\* max_retries + 1 firings.
C25_ChainIsFinite ==
    [][ \A c \in PassIds :
          /\ Fires(c) =>
                /\ timers'[c].phase \in {"armed", "done"}
                /\ timers'[c].runs = timers[c].runs + 1
                /\ timers'[c].runs <= max_retries + 1
                /\ timers'[c].phase = "armed" =>
                        timers'[c].retry_count = timers[c].retry_count + 1
                /\ timers[c].retry_count >= max_retries =>
                        timers'[c].phase = "done"
          /\ (timers[c].phase = "done" /\ timers[c].eng = "simple") =>
                timers'[c] = timers[c] ]_vars

\* A chain whose fetch never gave a report has ended after max_retries + 1
\* firings without a delivery.
C25_Witness ==
    \E c \in PassIds :
        /\ timers[c].phase = "done"
        /\ timers[c].eng = "simple"
        /\ timers[c].runs = max_retries + 1
        /\ timers[c].sends = 0
        /\ latest_report = NoReport

\* C26: a step5 firing for a url that is no longer a key of pending_reports
\* is a no-op: it fetches nothing (the reports directory is as before),
\* delivers nothing, changes no row of the store and arms no timer.
C26_RemovedEntryCancels ==
    [][ \A c \in PassIds :
          (Fires(c) /\ timers[c].url \notin pending_reports[timers[c].owner]) =>
                /\ latest_report' = latest_report
                /\ slack_messages' = slack_messages
                /\ timers'[c].phase = "done"
                /\ timers'[c].sends = timers[c].sends ]_vars

\* The claim step of ConcurrentDeepResearchOrchestrator returns None after its
\* commit went through (no lock timeout, no store error).
ReturnsNoneAfterCommit(p) ==
    /\ pc[p] = "commit"
    /\ engine[p] = "concurrent"
    /\ pc'[p] = "idle"
    /\ crashes' = crashes
    /\ step2_result'[p].why # "rollback"

\* C27: step2_get_and_lock_unprocessed_message, having marked a system message
\* processed, goes on to the next candidate in the same call: without a lock
\* timeout or a store error it returns None only when no claimable non-system
\* item remains.
C27_NoneOnlyWhenNothingClaimable ==
    [][ \A p \in Procs : ReturnsNoneAfterCommit(p) => Eligible' = {} ]_vars

\* A timer thread of another item, for another url, that is waiting or between
\* its fetch and its read.
OtherThread(c, d) ==
    /\ timers[d].phase \in {"armed", "fetched"}
    /\ timers[d].ts # timers[c].ts
    /\ timers[d].url # timers[c].url

\* C28: whatever the interleaving of the deferred fetches of different items
\* that share the reports directory, a thread whose own fetch wrote its
\* report and which then delivers, delivers the artifact for its own item's
\* url, never the one fetched by the thread of another item.
C28_DeliversOwnArtifact ==
    [][ \A c \in PassIds :
          ( /\ timers[c].phase = "fetched"
            /\ timers[c].wrote
            /\ timers'[c].phase = "done"
            /\ timers'[c].sends = timers[c].sends + 1 )
          => \A d \in PassIds :
                OtherThread(c, d) => timers'[c].sent.chain # d ]_vars

\* step3_generate_deep_research of a ConcurrentDeepResearchOrchestrator
\* returns a url (step 4 arms the timer of the pass with it).
ConcStep3Returns(p) ==
    /\ pc[p] = "step3_read"
    /\ engine[p] = "concurrent"
    /\ pc'[p] # "step3_read"
    /\ crashes' = crashes
    /\ timers'[pass_id[p]] # NoTimer

\* C29: the url that step 3 of a ConcurrentDeepResearchOrchestrator returns
\* is the one its own job run wrote, never one written to the shared
\* deep-research-start-url.json by another instance or left by an earlier run.
C29_ReturnsOwnUrl ==
    [][ \A p \in Procs :
          ConcStep3Returns(p) => timers'[pass_id[p]].url = pass_id[p] ]_vars

\* The deferred-fetch chains armed for item ts, waiting or ended.
ChainsOf(ts) ==
    { c \in PassIds : timers[c].phase \in {"armed", "done"} /\ timers[c].ts = ts }

\* C30: across the passes and timer firings of one DeepResearchOrchestrator
\* in continuous mode, store failures of mark_message_processed included, at
\* most one deferred-fetch chain is ever armed per item and
\* send_report_to_slack is called at most once per item.
C30_OneChainOneSendPerItem ==
    \A ts \in Items :
        /\ \A c, d \in ChainsOf(ts) : c = d
        /\ \A c \in ChainsOf(ts) : timers[c].sends <= 1

\* The files of the directory modified less than 120 s before the listing.
InWindow == { f \in report_files : Now - f.mtime < report_window }

\* C31: the concurrent step 5 delivers only a report file modified within the
\* trailing 120 s, the newest of them; when no file falls in the window
\* nothing is sent and mark_report_sent is not called.
C31_OnlyRecentDelivered ==
    listing # NoListing =>
        IF InWindow = {}
        THEN /\ listing.status \in {"no_files", "no_recent"}
             /\ ~listing.sent
             /\ ~listing.marked
        ELSE /\ listing.status = "read"
             /\ listing.sent
             /\ listing.file \in InWindow
             /\ \A g \in report_files : g.mtime <= listing.file.mtime

\* The directory holds only files outside the window, one of them on its
\* edge, and the listing found nothing to deliver.
C31_Witness ==
    /\ listing.status = "no_recent"
    /\ ~listing.sent
    /\ ~listing.marked
    /\ \E f \in report_files : f.mtime = Now - report_window
    /\ \E f \in report_files : f.mtime < Now - report_window

\* C32: in every reachable state in which a deferred fetch for an item is
\* armed, the item's row has report_generated=True and its report_content
\* holds the url the fetch was scheduled with.
C32_ArmedItemHasUrlStored ==
    \A c \in PassIds :
        Live(c) =>
            /\ slack_messages[timers[c].ts].report_generated
            /\ slack_messages[timers[c].ts].report_content = timers[c].url

\* C33: no step of run_workflow, of the step 5 callbacks or of delivery, in
\* either engine, changes the processed flag of a row from True to False.
C33_ProcessedNeverReset ==
    [][ \A ts \in Items :
          slack_messages[ts].processed => slack_messages'[ts].processed ]_vars

\* A request was marked processed by mark_message_processed, its report was
\* delivered by the step 5 callback, and a later pass has run since.
C33_Witness ==
    \E c \in PassIds :
        /\ timers[c].phase = "done"
        /\ timers[c].eng = "simple"
        /\ timers[c].sends = 1
        /\ slack_messages[timers[c].ts].processed
        /\ slack_messages[timers[c].ts].report_generated
        /\ slack_messages[timers[c].ts].report_sent_to_slack
        /\ passes > c
        /\ \E ts \in SystemItems : slack_messages[ts].processed

\* C34: for a report split into N > 1 chunks the simple engine's sends are,
\* in order, chunk 1 with the header and no part marker and then chunks 2, 3,
\* ... with the marker [Part i/N]; a send is made only when every send before
\* it has returned; and every send replies to the item's thread_ts, or to
\* its own ts when it has none.
C34_ChunksInOrderSameThread ==
    (delivery.phase \in {"sending", "done"} /\ delivery.eng = "simple"
        /\ Len(delivery.chunks) > 1)
    => /\ Len(delivery.calls) = Len(delivery.responses)
       /\ Len(delivery.calls) <= num_parts(delivery.report_size)
       /\ \A i \in 1..Len(delivery.calls) :
            LET call == delivery.calls[i] IN
            /\ call.text.part = i
            /\ call.text.of = num_parts(delivery.report_size)
            /\ call.text.prefix = (IF i = 1 THEN "header" ELSE "part")
            /\ call.text.start = (i - 1) * max_chunk_size
            /\ call.thread_ts =
                    (IF delivery.original.thread_ts = NoThread
                     THEN delivery.original.ts
                     ELSE delivery.original.thread_ts)

\* All three chunks of a report for a reply in a thread have been sent to
\* that thread.
C34_Witness ==
    /\ delivery.phase = "done"
    /\ delivery.eng = "simple"
    /\ delivery.original.thread_ts # NoThread
    /\ Len(delivery.chunks) = 3
    /\ Len(delivery.calls) = 3
    /\ delivery.calls[3].text.prefix = "part"
    /\ delivery.calls[3].thread_ts = delivery.original.thread_ts

\* C35: the query that the concurrent engine writes into its session script,
\* read back as a JavaScript double-quoted string literal, is the item's
\* text, for every text over backslash, quote, newline, carriage return, tab
\* and letters.
C35_SessionEscapeRoundTrip ==
    script_query # old_query =>
        JsUnescape(script_query) = [ok |-> TRUE, text |-> search_query]

RetrievalOver(p) == retrieval[p].phase \in {"returned", "raised"}

\* C37: when several instances run step 1 at the same time over overlapping
\* channel history, no pass fails (step 1 returns True in each) and every
\* non-bot message a finished call fetched is in the slack_messages table.
\* (One row per ts is the table's primary key.)
C37_ConcurrentIngestStoresAll ==
    \A p \in Procs :
        RetrievalOver(p) =>
            /\ step1_result(p) = "true"
            /\ \A ts \in retrieval[p].fetched :
                    ~is_bot(ts) => slack_messages[ts].stored

\* C38: the call creates its MessageRetrievalLog row with status
\* 'in_progress', and once the call is over the row has status 'completed'
\* or 'failed'.
C38_LogRowClosedOnReturn ==
    \A p \in Procs :
        /\ retrieval[p].phase \notin {"none"} => retrieval_logs[p] # "none"
        /\ RetrievalOver(p) => retrieval_logs[p] \in {"completed", "failed"}

\* C39: at most one ConcurrentDeepResearchOrchestrator instance is inside the
\* locked section of step2_get_and_lock_unprocessed_message at a time, and an
\* instance holds orchestrator.lock only there: not once step 2 returned,
\* so not during the job launch, the deferred wait or the delivery.
C39_LockHeldOnlyInStep2 ==
    /\ Cardinality(lock_holders) <= 1
    /\ \A p \in lock_holders :
        /\ engine[p] = "concurrent"
        /\ pc[p] = "commit"
        /\ OwnTimers(p) = {}

\* One instance is inside the locked section while another, which left
\* step 2 with an item and launched its job, waits on its deferred fetch.
C39_Witness ==
    \E p, q \in Procs :
        /\ p # q
        /\ lock_holders = {p}
        /\ pc[p] = "commit"
        /\ engine[q] = "concurrent"
        /\ OwnTimers(q) # {}

====
